---------------------------- MODULE Spec2Model ----------------------------
(***************************************************************************)
(* A model of dj-indexer: the track store (tracks, cue_points, playlists), *)
(* the directory scanner, the rekordbox XML importer, the searches and the *)
(* printing of their rows, the ad-hoc query with its CSV export, and the   *)
(* path conversion.  A scan or an import may be aborted: the store then    *)
(* goes back to its last commit.                                           *)
(*                                                                         *)
(* Values.  A text is a sequence of one-character strings.  A nullable     *)
(* column holds NULL (the empty tuple) or a one-element tuple: Some(text)  *)
(* for a text column, Num(n) for a number.  Track ids are the              *)
(* positions in the sequence tracks (AUTOINCREMENT, no track is deleted).  *)
(***************************************************************************)
EXTENDS Integers, Sequences, FiniteSets, TLC

VARIABLES
    tracks,             \* table tracks: sequence of rows, row id = index
    cue_points,         \* table cue_points: sequence of rows
    playlists,          \* table playlists: sequence of rows
    pc,                 \* "idle", "scan", "import", "search", "query", "convert"
    scan_files,         \* scan_directory: files of the walk not yet visited
    scan_label,         \* scan_directory: the label argument
    count,              \* scan_directory: the number of files indexed so far
    xml,                \* import_xml: name of the catalog being imported
    idx,                \* import_xml: 1-based index of the next catalog track
    existing_tracks,    \* import_xml: filename_lower -> id, loaded in phase 2
    already_imported,   \* import_xml: rb_track_id values loaded in phase 2
    imported_count,
    skipped_count,
    already_done_count,
    prevRun,            \* history: catalog and tables at the end of the last import
    lastOp,             \* history: what the last step did
    ops,                \* history: the number of operations started
    scan0,              \* history: the row count when the last scan started, and
                        \* whether every audio file of its walk was indexed then
    import0,            \* history: the table tracks when the last import started
    committed,          \* the three tables as of the last conn.commit()
    args,               \* search: the arguments of the last search
    rows,               \* search: the rows the last search handed to print_results
    column_names,       \* query: the column names of the last result
    csv_file,           \* export: the file at the output path, NULL when absent
    printed,            \* the messages of the last command
    volume_mappings,    \* path conversion: the volume mapping
    conv_path,          \* path conversion: the value given first
    converted           \* path conversion: the conversions made, in order

vars == <<tracks, cue_points, playlists, pc, scan_files, scan_label, xml, idx,
          existing_tracks, already_imported, imported_count, skipped_count,
          already_done_count, prevRun, lastOp, ops, scan0, args, rows,
          column_names, csv_file, printed, volume_mappings, conv_path, converted,
          count, import0, committed>>

storeVars == <<tracks, cue_points, playlists>>
scanVars == <<scan_files, scan_label, count>>
histVars == <<prevRun, ops, scan0, import0>>
importVars == <<xml, idx, existing_tracks, already_imported, imported_count,
                skipped_count, already_done_count>>
searchVars == <<args, rows>>
exportVars == <<column_names, csv_file, printed>>
convVars == <<volume_mappings, conv_path, converted>>

---------------------------------------------------------------------------
(* Bounds *)

\* the number of scan_directory and import_xml runs in one behaviour
MaxOps == 3

\* the number of tracks in a store that is searched, and the largest --limit
MaxTracks == 3

\* the number of conversions applied in a row to one value
MaxConversions == 2

\* the number of ad-hoc queries run in a row
MaxQueries == 2

\* scanner.py prints its progress, and rekordbox_xml.py commits, when the
\* counter is a multiple of 100.  The model divides both periods by 50, so
\* that a walk of two files and a catalog of two tracks reach them
ProgressEvery == 2
CommitEvery == 2

---------------------------------------------------------------------------
(* Values *)

NULL == <<>>
Some(v) == <<v>>
Num(n) == << <<n>> >>
EmptyText == Some(<<>>)
NumVal(v) == v[1][1]
IsNull(v) == Len(v) = 0
IsEmptyText(v) == Len(v) = 1 /\ Len(v[1]) = 0
\* a text column that is neither NULL nor ''
NonEmpty(v) == Len(v) = 1 /\ Len(v[1]) > 0

\* Python: value or None (a falsy text becomes None)
OrNone(v) == IF NonEmpty(v) THEN v ELSE NULL

\* SQL: COALESCE(NULLIF(new, ''), old)
CoalesceNullif(new, old) == IF IsNull(new) \/ IsEmptyText(new) THEN old ELSE new

\* SQL: COALESCE(new, old)
Coalesce(new, old) == IF IsNull(new) THEN old ELSE new

safe_float(value) == IF IsNull(value) \/ IsEmptyText(value) THEN NULL ELSE value

safe_int(value) == IF IsNull(value) \/ IsEmptyText(value) THEN NULL ELSE value

Letters == <<"A", "B", "C", "D", "E", "F", "G", "H", "I", "J", "K", "L", "M",
             "N", "O", "P", "Q", "R", "S", "T", "U", "V", "W", "X", "Y", "Z">>

LowerLetters == <<"a", "b", "c", "d", "e", "f", "g", "h", "i", "j", "k", "l", "m",
                  "n", "o", "p", "q", "r", "s", "t", "u", "v", "w", "x", "y", "z">>

\* str.lower(), and the case folding of LIKE and re.IGNORECASE, on one character
LowerChar(c) ==
    IF \E i \in 1..Len(Letters) : Letters[i] = c
    THEN LowerLetters[CHOOSE i \in 1..Len(Letters) : Letters[i] = c]
    ELSE c

Lower(s) == [i \in 1..Len(s) |-> LowerChar(s[i])]

Digits == <<"0", "1", "2", "3", "4", "5", "6", "7", "8", "9">>

\* str(n) for a natural number
RECURSIVE Str(_)
Str(n) == IF n < 10 THEN <<Digits[n + 1]>> ELSE Str(n \div 10) \o <<Digits[(n % 10) + 1]>>

\* the positions of character c in s
Positions(s, c) == {i \in 1..Len(s) : s[i] = c}

MaxOf(S) == CHOOSE x \in S : \A y \in S : y <= x
MinOf(S) == CHOOSE x \in S : \A y \in S : x <= y

RECURSIVE StripSlashes(_)
StripSlashes(p) ==
    IF Len(p) > 1 /\ p[Len(p)] = "/" THEN StripSlashes(SubSeq(p, 1, Len(p) - 1))
    ELSE p

\* pathlib: Path(p).name, the last component of the path
PathName(p) ==
    LET q == StripSlashes(p)
        sl == Positions(q, "/")
    IN  IF sl = {} THEN q ELSE SubSeq(q, MaxOf(sl) + 1, Len(q))

\* pathlib: Path(name).suffix
PathSuffix(name) ==
    LET dots == Positions(name, ".")
    IN  IF dots = {} THEN <<>>
        ELSE LET i == MaxOf(dots)
             IN  IF 1 < i /\ i < Len(name) THEN SubSeq(name, i, Len(name)) ELSE <<>>

---------------------------------------------------------------------------
(* The file system the scanner walks *)

P_a_x == <<"/", "a", "/", "x", ".", "m">>
P_a_n == <<"/", "a", "/", "n", ".", "t">>
P_b_X == <<"/", "b", "/", "X", ".", "M">>
P_b_y == <<"/", "b", "/", "y", ".", "m">>

Dir_a == <<"/", "a">>
Dir_b == <<"/", "b">>
Dirs == {Dir_a, Dir_b}

\* a path that does not exist
Dir_z == <<"/", "z">>

\* the paths a scan is asked to walk: the directories, a path that does not
\* exist and a file
ScanPaths == Dirs \cup {Dir_z, P_a_x}

\* pathlib: Path.exists() and Path.is_dir()
Exists(path) == path \in Dirs \cup {P_a_x, P_a_n, P_b_X, P_b_y}
IsDir(path) == path \in Dirs

\* directory.rglob("*"): the files under each directory
Rglob(dir) ==
    IF dir = Dir_a THEN <<P_a_x, P_a_n>>
    ELSE IF dir = Dir_b THEN <<P_b_X, P_b_y>>
    ELSE <<>>

Labels == {<<"U", "1">>, <<"U", "2">>}

AUDIO_EXTENSIONS == {<<".", "m">>}

\* what _extract_metadata can return for a file: a tag set, or None when the
\* file is unreadable
Meta(title, artist, bpm, genre) ==
    [title |-> title, artist |-> artist, album |-> NULL, genre |-> genre,
     bpm |-> bpm, musical_key |-> NULL, duration_sec |-> Num(200),
     bitrate |-> Num(320), sample_rate |-> NULL, comments |-> NULL,
     label |-> NULL, remixer |-> NULL]

NoTags == [Meta(NULL, NULL, NULL, NULL) EXCEPT !.duration_sec = NULL, !.bitrate = NULL]

Metas == {NoTags,
          Meta(Some(<<"t">>), EmptyText, Num(120), Some(<<"g">>))}

Unreadable == [unreadable |-> TRUE]

_extract_metadata(filepath) == {Unreadable} \cup Metas

---------------------------------------------------------------------------
(* The store *)

NewTrack ==
    [filepath |-> NULL, filename |-> NULL, filename_lower |-> NULL,
     source_label |-> NULL, title |-> NULL, artist |-> NULL, album |-> NULL,
     genre |-> NULL, bpm |-> NULL, musical_key |-> NULL, duration_sec |-> NULL,
     bitrate |-> NULL, sample_rate |-> NULL, file_format |-> NULL,
     file_size |-> NULL, in_rekordbox |-> 0, rb_track_id |-> NULL,
     rb_location |-> NULL, comments |-> NULL, label |-> NULL, remixer |-> NULL]

Ids(t) == 1..Len(t)

\* the three tables
Store(t, cp, pl) == [tracks |-> t, cue_points |-> cp, playlists |-> pl]

\* the ids of the rows with this filepath (UNIQUE: at most one)
ByFilepath(t, fp) == {i \in Ids(t) : t[i].filepath = fp}

\* the cue_points rows of one track, in insertion order
CuesOf(cp, id) == SelectSeq(cp, LAMBDA r : r.track_id = id)

---------------------------------------------------------------------------
(* scanner.py *)

\* the row INSERT would add
ScanInsertRow(filepath, label, m) ==
    [NewTrack EXCEPT
        !.filepath = Some(filepath),
        !.filename = Some(PathName(filepath)),
        !.filename_lower = Some(Lower(PathName(filepath))),
        !.source_label = Some(label),
        !.title = m.title, !.artist = m.artist, !.album = m.album,
        !.genre = m.genre, !.bpm = m.bpm, !.musical_key = m.musical_key,
        !.duration_sec = m.duration_sec, !.bitrate = m.bitrate,
        !.sample_rate = m.sample_rate,
        !.file_format = Some(Lower(PathSuffix(PathName(filepath)))),
        !.file_size = Num(1),
        !.comments = m.comments, !.label = m.label, !.remixer = m.remixer]

\* mutant: INSERT OR REPLACE, the old row is replaced by the new one
ScanUpdateRow_Replace(old, e) == e

\* ON CONFLICT(filepath) DO UPDATE SET ... of the scanner
ScanUpdateRow(old, e) ==
    [old EXCEPT
        !.filename = CoalesceNullif(e.filename, old.filename),
        !.source_label = e.source_label,
        !.title = CoalesceNullif(e.title, old.title),
        !.artist = CoalesceNullif(e.artist, old.artist),
        !.album = CoalesceNullif(e.album, old.album),
        !.genre = CoalesceNullif(e.genre, old.genre),
        !.bpm = Coalesce(e.bpm, old.bpm),
        !.musical_key = CoalesceNullif(e.musical_key, old.musical_key),
        !.duration_sec = Coalesce(e.duration_sec, old.duration_sec),
        !.bitrate = Coalesce(e.bitrate, old.bitrate),
        !.sample_rate = Coalesce(e.sample_rate, old.sample_rate),
        !.file_format = CoalesceNullif(e.file_format, old.file_format),
        !.file_size = Coalesce(e.file_size, old.file_size),
        !.comments = CoalesceNullif(e.comments, old.comments),
        !.label = CoalesceNullif(e.label, old.label),
        !.remixer = CoalesceNullif(e.remixer, old.remixer)]

\* mutant: a plain INSERT, no ON CONFLICT clause and no UNIQUE(filepath)
_insert_or_update_track_NoConflict(t, filepath, label, m) ==
    Append(t, ScanInsertRow(filepath, label, m))

\* INSERT INTO tracks ... ON CONFLICT(filepath) DO UPDATE: the new table
_insert_or_update_track(t, filepath, label, m) ==
    LET e == ScanInsertRow(filepath, label, m)
        hit == ByFilepath(t, e.filepath)
    IN  IF hit = {} THEN Append(t, e)
        ELSE [i \in Ids(t) |-> IF i \in hit THEN ScanUpdateRow(t[i], e) ELSE t[i]]

Op(op, id) == [op |-> op, id |-> id]

IsAudio(file) == Lower(PathSuffix(PathName(file))) \in AUDIO_EXTENSIONS

AllIndexed(t, files) ==
    \A k \in 1..Len(files) : IsAudio(files[k]) => ByFilepath(t, Some(files[k])) # {}

\* scan_directory up to the walk: _validate_directory passed
\* _validate_directory: the error it raises, or "ok"
_validate_directory(directory) ==
    IF ~Exists(directory) THEN "FileNotFoundError"
    ELSE IF ~IsDir(directory) THEN "NotADirectoryError"
    ELSE "ok"

\* scan_directory on a path that _validate_directory refuses
ScanRaise(directory, label) ==
    /\ pc = "idle"
    /\ ops < MaxOps
    /\ _validate_directory(directory) # "ok"
    /\ ops' = ops + 1
    /\ lastOp' = Op("scan_error", 0)
    /\ printed' = << <<_validate_directory(directory), "">> >>
    /\ scan0' = [count |-> Len(tracks), indexed |-> FALSE, directory |-> directory]
    /\ args' = [set |-> FALSE]
    /\ rows' = <<>>
    /\ UNCHANGED <<column_names, csv_file, convVars, storeVars, pc, scanVars,
                   importVars, prevRun, import0, committed>>

ScanStart(directory, label) ==
    /\ pc = "idle"
    /\ ops < MaxOps
    /\ _validate_directory(directory) = "ok"
    /\ ops' = ops + 1
    /\ pc' = "scan"
    /\ scan_files' = Rglob(directory)
    /\ scan_label' = label
    /\ lastOp' = Op("scan_start", 0)
    /\ prevRun' = [xml |-> "none", cue_points |-> <<>>, playlists |-> <<>>]
    /\ scan0' = [count |-> Len(tracks),
                 indexed |-> AllIndexed(tracks, Rglob(directory)),
                 directory |-> directory]
    /\ args' = [set |-> FALSE]
    /\ rows' = <<>>
    /\ printed' = <<>>
    /\ count' = 0
    /\ UNCHANGED <<column_names, csv_file, convVars, storeVars, importVars, import0,
                   committed>>

\* conn.execute(INSERT ...) in _insert_or_update_track: it returns, or the
\* engine raises sqlite3.Error (a locked or full database)
InsertOutcomes == {"ok", "sqlite3.Error"}

\* one iteration of the walk
ScanFile ==
    /\ pc = "scan"
    /\ scan_files # <<>>
    /\ LET audio_file == Head(scan_files)
       IN  /\ scan_files' = Tail(scan_files)
           /\ \/ /\ ~IsAudio(audio_file)
                 /\ lastOp' = Op("scan_not_audio", 0)
                 /\ UNCHANGED <<tracks, count, printed>>
              \/ /\ IsAudio(audio_file)
                 /\ \E metadata \in _extract_metadata(audio_file),
                       outcome \in InsertOutcomes :
                       IF metadata = Unreadable
                       THEN /\ outcome = "ok"
                            /\ lastOp' = Op("scan_unreadable", 0)
                            /\ printed' = Append(printed,
                                   <<"WARN Skipped unreadable file", audio_file>>)
                            /\ UNCHANGED <<tracks, count>>
                       ELSE IF outcome = "sqlite3.Error"
                       THEN /\ lastOp' = Op("scan_db_error", 0)
                            /\ printed' = Append(printed,
                                   <<"WARN Database error", audio_file>>)
                            /\ UNCHANGED <<tracks, count>>
                       ELSE /\ tracks' = _insert_or_update_track(
                                            tracks, audio_file, scan_label, metadata)
                            /\ count' = count + 1
                            /\ printed' =
                                 IF count' % ProgressEvery = 0
                                 THEN Append(printed, <<"Indexed", Str(count')>>)
                                 ELSE printed
                            /\ lastOp' =
                                 LET hit == ByFilepath(tracks, Some(audio_file))
                                 IN  IF hit = {} THEN Op("scan_insert", Len(tracks) + 1)
                                     ELSE Op("scan_update", MinOf(hit))
    /\ UNCHANGED <<column_names, csv_file, convVars, cue_points, playlists, pc,
                   scan_label, importVars, histVars, searchVars, committed>>

\* the final commit and the summary
ScanFinish ==
    /\ pc = "scan"
    /\ scan_files = <<>>
    /\ pc' = "idle"
    /\ scan_label' = <<>>
    /\ committed' = Store(tracks, cue_points, playlists)
    /\ printed' = Append(printed, <<"Scan complete. Indexed", Str(count)>>)
    /\ lastOp' = Op("scan_done", 0)
    /\ UNCHANGED <<column_names, csv_file, convVars, storeVars, scan_files, count,
                   importVars, histVars, searchVars>>

---------------------------------------------------------------------------
(* The catalogs import_xml reads (what pyrekordbox parses out of the XML) *)

Mark(num, start) == [Type |-> 0, Num |-> num, Start |-> Num(start), Name |-> NULL]

CatTrack(id, name, artist, bpm, location, marks) ==
    [TrackID |-> id, Name |-> name, Artist |-> artist, Album |-> NULL,
     Genre |-> EmptyText, AverageBpm |-> bpm, Tonality |-> NULL,
     Comments |-> NULL, Label |-> NULL, Remixer |-> NULL, BitRate |-> NULL,
     SampleRate |-> Num(44), TotalTime |-> EmptyText, Location |-> location,
     marks |-> marks]

Folder(name, children) ==
    [type |-> "folder", name |-> name, children |-> children, tracks |-> <<>>]

Leaf(name, track_ids) ==
    [type |-> "playlist", name |-> name, children |-> <<>>, tracks |-> track_ids]

L_c_x == <<"/", "c", "/", "x", ".", "m">>
L_c_Z == <<"/", "c", "/", "Z", ".", "m">>

\* two catalog tracks share a location (and so a file name); one has none
Catalog1 ==
    [tracks |-> <<
        CatTrack(Num(1), Some(<<"r">>), EmptyText, NULL, Some(L_c_x),
                 <<Mark(Num(-1), 1), Mark(Num(0), 2)>>),
        CatTrack(Num(2), EmptyText, Some(<<"s">>), Num(125), Some(L_c_x),
                 <<Mark(NULL, 3)>>),
        CatTrack(Num(3), Some(<<"q">>), NULL, NULL, NULL, <<>>) >>,
     playlists |-> <<
        Folder(<<"F">>, << Leaf(<<"P">>, <<1, 2, 9>>) >>),
        Leaf(<<"Q">>, <<2, 2>>) >>]

\* every catalog track has its own file name
Catalog2 ==
    [tracks |-> <<
        CatTrack(Num(4), EmptyText, Some(<<"s">>), Num(125), Some(L_c_Z),
                 <<Mark(Num(7), 4)>>),
        CatTrack(NULL, Some(<<"r">>), NULL, NULL, Some(P_a_x), <<>>) >>,
     playlists |-> <<
        Leaf(<<"P">>, <<4>>),
        Folder(<<"F">>, << Folder(<<"G">>, << Leaf(<<"P">>, <<4, 1>>) >>) >>) >>]

\* an attribute the parser cannot convert to its type (AverageBpm="fast"):
\* track.get raises ValueError for it
Unconvertible == <<"ValueError", "">>

L_c_w == <<"/", "c", "/", "w", ".", "m">>

\* a hot cue in slot 8, a track whose tempo is not a number, and a track with
\* a slot number chr() refuses between two marks it accepts
Catalog3 ==
    [tracks |-> <<
        CatTrack(Num(5), Some(<<"u">>), NULL, NULL, Some(L_c_w),
                 <<Mark(Num(8), 1)>>),
        CatTrack(Num(6), Some(<<"v">>), NULL, Unconvertible, Some(L_c_Z), <<>>),
        CatTrack(Num(7), NULL, Some(<<"s">>), NULL, Some(P_a_x),
                 <<Mark(Num(0), 1), Mark(Num(-100), 2), Mark(Num(1), 3)>>) >>,
     playlists |-> << Leaf(<<"R">>, <<7, 5, 7>>) >>]

CatalogNames == {"Catalog1", "Catalog2", "Catalog3"}

\* the files an import is asked to read: the catalogs, a file that does
\* not exist and a file that is not a rekordbox collection
XmlFiles == CatalogNames \cup {"Missing", "Broken"}

\* xml_path.exists()
XmlExists(name) == name # "Missing"

\* RekordboxXml(path): the catalog parsed, or NULL when the parser raises
RekordboxXml_Lenient(name) ==
    IF name = "Catalog1" THEN Some(Catalog1)
    ELSE IF name = "Catalog2" THEN Some(Catalog2)
    ELSE IF name = "Catalog3" THEN Some(Catalog3)
    ELSE Some([tracks |-> <<>>, playlists |-> <<>>])
RekordboxXml(name) ==
    IF name = "Catalog1" THEN Some(Catalog1)
    ELSE IF name = "Catalog2" THEN Some(Catalog2)
    ELSE IF name = "Catalog3" THEN Some(Catalog3)
    ELSE NULL

Catalog(name) == RekordboxXml(name)[1]

num_tracks(name) == Len(Catalog(name).tracks)

---------------------------------------------------------------------------
(* rekordbox_xml.py *)

\* chr(n): ValueError outside range(0x110000)
ChrRaises(n) == n < 0 \/ n > 1114111

\* chr(n) for the capital letters
Chr(n) == Letters[n - 64]

memory_cue == <<"m", "e", "m", "o", "r", "y", "_", "c", "u", "e">>
hot_cue_ == <<"h", "o", "t", "_", "c", "u", "e", "_">>

_get_cue_type(type_val, num) ==
    LET n == IF IsNull(num) THEN -1 ELSE NumVal(num)
    IN  IF n = -1 THEN memory_cue ELSE hot_cue_ \o <<Chr(65 + n)>>

\* _get_cue_type raises for this mark: chr(65 + num) refuses the number
MarkRaises(mark) ==
    LET n == IF IsNull(mark.Num) THEN -1 ELSE NumVal(mark.Num)
    IN  n # -1 /\ ChrRaises(65 + n)

\* the marks the loop over track.marks handles before _get_cue_type raises:
\* all of them when it never does
MarksDone(marks) ==
    LET bad == {k \in 1..Len(marks) : MarkRaises(marks[k])}
    IN  IF bad = {} THEN marks ELSE SubSeq(marks, 1, MinOf(bad) - 1)

\* track.get raises while the column values are read
GetRaises(track) == track.AverageBpm = Unconvertible

\* mutant: the rows are keyed by filename, which keeps the case of the file
LoadExisting_CaseSensitive(t) ==
    [k \in {t[i].filename : i \in Ids(t)} |->
        MaxOf({i \in Ids(t) : t[i].filename = k})]

\* phase 2: {row[1]: row[0] for row in SELECT id, filename_lower FROM tracks};
\* a later row replaces an earlier one with the same filename_lower
LoadExisting(t) ==
    [k \in {t[i].filename_lower : i \in Ids(t)} |->
        MaxOf({i \in Ids(t) : t[i].filename_lower = k})]

\* mutant: the set of imported ids is left empty, no catalog track is known
LoadAlreadyImported_Nothing(t) == {}

\* phase 2: rb_track_id of the rows with in_rekordbox = 1
LoadAlreadyImported(t) ==
    {t[i].rb_track_id : i \in {j \in Ids(t) : t[j].in_rekordbox = 1
                                              /\ t[j].rb_track_id # NULL}}

\* the column values import_xml computes from one catalog track
ImportValues(track) ==
    LET location == track.Location
        filename == IF NonEmpty(location) THEN PathName(location[1]) ELSE <<>>
    IN  [track_id_str |-> IF track.TrackID # NULL THEN Some(Str(NumVal(track.TrackID)))
                          ELSE NULL,
         title |-> OrNone(track.Name), artist |-> OrNone(track.Artist),
         album |-> OrNone(track.Album), genre |-> OrNone(track.Genre),
         bpm |-> safe_float(track.AverageBpm),
         musical_key |-> OrNone(track.Tonality),
         comments |-> OrNone(track.Comments), label |-> OrNone(track.Label),
         remixer |-> OrNone(track.Remixer), bitrate |-> safe_int(track.BitRate),
         sample_rate |-> safe_int(track.SampleRate),
         duration_sec |-> safe_float(track.TotalTime),
         location |-> location, filename |-> filename]

\* mutant: UPDATE tracks SET title = ?, ... without COALESCE(NULLIF(?, ''), ...)
ImportUpdateRow_Overwrite(old, v) ==
    [old EXCEPT
        !.title = v.title, !.artist = v.artist, !.album = v.album,
        !.genre = v.genre, !.bpm = v.bpm, !.musical_key = v.musical_key,
        !.comments = v.comments, !.label = v.label, !.remixer = v.remixer,
        !.bitrate = v.bitrate, !.sample_rate = v.sample_rate,
        !.duration_sec = v.duration_sec,
        !.in_rekordbox = 1,
        !.rb_track_id = v.track_id_str,
        !.rb_location = v.location]

\* UPDATE tracks SET ... WHERE id = ?  (the file name matched)
ImportUpdateRow(old, v) ==
    [old EXCEPT
        !.title = CoalesceNullif(v.title, old.title),
        !.artist = CoalesceNullif(v.artist, old.artist),
        !.album = CoalesceNullif(v.album, old.album),
        !.genre = CoalesceNullif(v.genre, old.genre),
        !.bpm = Coalesce(v.bpm, old.bpm),
        !.musical_key = CoalesceNullif(v.musical_key, old.musical_key),
        !.comments = CoalesceNullif(v.comments, old.comments),
        !.label = CoalesceNullif(v.label, old.label),
        !.remixer = CoalesceNullif(v.remixer, old.remixer),
        !.bitrate = Coalesce(v.bitrate, old.bitrate),
        !.sample_rate = Coalesce(v.sample_rate, old.sample_rate),
        !.duration_sec = Coalesce(v.duration_sec, old.duration_sec),
        !.in_rekordbox = 1,
        !.rb_track_id = v.track_id_str,
        !.rb_location = v.location]

rekordbox_XML == <<"r", "e", "k", "o", "r", "d", "b", "o", "x", " ", "X", "M", "L">>

\* the row INSERT adds when no row has the location as its filepath
ImportInsertRow(v) ==
    [NewTrack EXCEPT
        !.filepath = v.location,
        !.filename = Some(v.filename),
        !.filename_lower = Some(Lower(v.filename)),
        !.source_label = Some(rekordbox_XML),
        !.title = v.title, !.artist = v.artist, !.album = v.album,
        !.genre = v.genre, !.bpm = v.bpm, !.musical_key = v.musical_key,
        !.duration_sec = v.duration_sec, !.bitrate = v.bitrate,
        !.sample_rate = v.sample_rate,
        !.file_format = Some(Lower(PathSuffix(v.filename))),
        !.comments = v.comments, !.label = v.label, !.remixer = v.remixer,
        !.in_rekordbox = 1,
        !.rb_track_id = v.track_id_str,
        !.rb_location = v.location]

\* ON CONFLICT(filepath) DO UPDATE SET ... of the importer
ImportConflictRow(old, e) ==
    [old EXCEPT
        !.filename = e.filename,
        !.filename_lower = e.filename_lower,
        !.source_label = CoalesceNullif(e.source_label, old.source_label),
        !.title = CoalesceNullif(e.title, old.title),
        !.artist = CoalesceNullif(e.artist, old.artist),
        !.album = CoalesceNullif(e.album, old.album),
        !.genre = CoalesceNullif(e.genre, old.genre),
        !.bpm = Coalesce(e.bpm, old.bpm),
        !.musical_key = CoalesceNullif(e.musical_key, old.musical_key),
        !.duration_sec = Coalesce(e.duration_sec, old.duration_sec),
        !.bitrate = Coalesce(e.bitrate, old.bitrate),
        !.sample_rate = Coalesce(e.sample_rate, old.sample_rate),
        !.file_format = CoalesceNullif(e.file_format, old.file_format),
        !.comments = CoalesceNullif(e.comments, old.comments),
        !.label = CoalesceNullif(e.label, old.label),
        !.remixer = CoalesceNullif(e.remixer, old.remixer),
        !.in_rekordbox = 1,
        !.rb_track_id = e.rb_track_id,
        !.rb_location = e.rb_location]

\* INSERT INTO tracks ... ON CONFLICT(filepath) DO UPDATE: the new table
ImportUpsert(t, v) ==
    LET e == ImportInsertRow(v)
        hit == ByFilepath(t, e.filepath)
    IN  IF hit = {} THEN Append(t, e)
        ELSE [i \in Ids(t) |-> IF i \in hit THEN ImportConflictRow(t[i], e) ELSE t[i]]

\* the cue_points rows inserted for the marks of one catalog track
RECURSIVE CueRows(_, _)
CueRows(track_id, marks) ==
    IF marks = <<>> THEN <<>>
    ELSE LET mark == Head(marks)
         IN  << [track_id |-> track_id,
                 cue_type |-> _get_cue_type(mark.Type, mark.Num),
                 cue_name |-> OrNone(mark.Name),
                 cue_num |-> safe_int(mark.Num),
                 position_sec |-> safe_float(mark.Start)] >>
             \o CueRows(track_id, Tail(marks))

\* mutant: the marks are inserted and the old cue points are not deleted
ReplaceCues_Accumulate(cp, track_id, marks) == cp \o CueRows(track_id, marks)

\* DELETE FROM cue_points WHERE track_id = ?, then one INSERT per mark.  The
\* table is kept grouped by track_id (its row ids are not modelled): the new
\* rows take the place of the deleted ones
ReplaceCues(cp, track_id, marks) ==
    SelectSeq(cp, LAMBDA r : r.track_id < track_id)
    \o CueRows(track_id, marks)
    \o SelectSeq(cp, LAMBDA r : r.track_id > track_id)

\* SELECT id FROM tracks WHERE rb_track_id = ?, fetchone(): the first row
ByRbTrackId(t, key) ==
    LET hit == {i \in Ids(t) : t[i].rb_track_id = Some(key)}
    IN  IF hit = {} THEN NULL ELSE Some(MinOf(hit))

\* the rows one leaf playlist adds: enumerate(track_ids, 1)
RECURSIVE LeafRows(_, _, _, _, _)
LeafRows(t, playlist_name, playlist_path, track_ids, position) ==
    IF position > Len(track_ids) THEN <<>>
    ELSE LET row == ByRbTrackId(t, Str(track_ids[position]))
         IN  (IF row # NULL
              THEN << [playlist_name |-> playlist_name,
                       playlist_path |-> playlist_path,
                       track_id |-> row[1], position |-> position] >>
              ELSE <<>>)
             \o LeafRows(t, playlist_name, playlist_path, track_ids, position + 1)

JoinPath(parent_path, name) ==
    IF parent_path # <<>> THEN parent_path \o <<"/">> \o name ELSE name

\* _process_node over a list of nodes, depth first
RECURSIVE _process_nodes(_, _, _)
_process_nodes(t, nodes, parent_path) ==
    IF nodes = <<>> THEN <<>>
    ELSE LET node == Head(nodes)
             here == IF node.type = "playlist"
                     THEN LeafRows(t, node.name, JoinPath(parent_path, node.name),
                                   node.tracks, 1)
                     ELSE _process_nodes(t, node.children,
                                         JoinPath(parent_path, node.name))
         IN  here \o _process_nodes(t, Tail(nodes), parent_path)

\* the playlists table _import_playlists builds from an empty one
_import_playlists(t, name) == _process_nodes(t, Catalog(name).playlists, <<>>)

\* mutant: the rebuilt rows are added to the old ones (no DELETE FROM playlists)
RebuildPlaylists_Merge(old, t, name) == old \o _import_playlists(t, name)

\* phase 4: DELETE FROM playlists, then _import_playlists
RebuildPlaylists(old, t, name) == _import_playlists(t, name)

\* import_xml up to the loop: the file exists and parses; phases 1 and 2
\* import_xml on a file that does not exist or that the parser refuses
ImportRaise(name) ==
    /\ pc = "idle"
    /\ ops < MaxOps
    /\ ~XmlExists(name) \/ IsNull(RekordboxXml(name))
    /\ ops' = ops + 1
    /\ lastOp' = Op("import_error", 0)
    /\ printed' = << <<IF ~XmlExists(name) THEN "FileNotFoundError" ELSE "ValueError",
                       "">> >>
    /\ args' = [set |-> FALSE]
    /\ rows' = <<>>
    /\ UNCHANGED <<column_names, csv_file, convVars, storeVars, pc, scanVars,
                   importVars, prevRun, scan0, import0, committed>>

ImportStart(name) ==
    /\ pc = "idle"
    /\ ops < MaxOps
    /\ XmlExists(name)
    /\ ~IsNull(RekordboxXml(name))
    /\ ops' = ops + 1
    /\ pc' = "import"
    /\ xml' = name
    /\ idx' = 1
    /\ existing_tracks' = LoadExisting(tracks)
    /\ already_imported' = LoadAlreadyImported(tracks)
    /\ imported_count' = 0
    /\ skipped_count' = 0
    /\ already_done_count' = 0
    /\ lastOp' = Op("import_start", 0)
    /\ args' = [set |-> FALSE]
    /\ rows' = <<>>
    /\ printed' = <<>>
    /\ import0' = tracks
    /\ UNCHANGED <<column_names, csv_file, convVars, storeVars, scanVars, prevRun,
                   scan0, committed>>

\* phase 3: one iteration of the loop over the catalog tracks
ImportTrack ==
    /\ pc = "import"
    /\ idx <= num_tracks(xml)
    /\ idx' = idx + 1
    /\ LET track == Catalog(xml).tracks[idx]
           v == ImportValues(track)
           key == Some(Lower(v.filename))
           warned == Append(printed, <<"WARN Error importing track", Str(idx - 1)>>)
       IN  IF v.track_id_str # NULL /\ v.track_id_str \in already_imported
           THEN /\ already_done_count' = already_done_count + 1
                /\ lastOp' = Op("import_already_done", 0)
                /\ UNCHANGED <<tracks, cue_points, imported_count, skipped_count,
                               printed, committed>>
           ELSE IF GetRaises(track)
           THEN /\ skipped_count' = skipped_count + 1
                /\ printed' = warned
                /\ lastOp' = Op("import_track_error", 0)
                /\ UNCHANGED <<tracks, cue_points, imported_count,
                               already_done_count, committed>>
           ELSE IF v.filename = <<>>
           THEN /\ skipped_count' = skipped_count + 1
                /\ lastOp' = Op("import_skipped", 0)
                /\ UNCHANGED <<tracks, cue_points, imported_count,
                               already_done_count, printed, committed>>
           ELSE LET matched == key \in DOMAIN existing_tracks
                    hit == ByFilepath(tracks, v.location)
                    track_id == IF matched THEN existing_tracks[key]
                                ELSE IF hit = {} THEN Len(tracks) + 1
                                ELSE MinOf(hit)
                    done == MarksDone(track.marks)
                    raised == done # track.marks
                IN  /\ tracks' =
                          IF matched
                          THEN [tracks EXCEPT ![track_id] = ImportUpdateRow(@, v)]
                          ELSE ImportUpsert(tracks, v)
                    /\ imported_count' = imported_count + 1
                    /\ cue_points' = ReplaceCues(cue_points, track_id, done)
                    /\ skipped_count' = IF raised THEN skipped_count + 1
                                        ELSE skipped_count
                    /\ printed' = IF raised THEN warned ELSE printed
                    /\ committed' =
                          IF ~raised /\ imported_count' % CommitEvery = 0
                          THEN Store(tracks', cue_points', playlists)
                          ELSE committed
                    /\ lastOp' = Op(IF matched THEN "import_update"
                                    ELSE IF hit = {} THEN "import_insert"
                                    ELSE "import_conflict", track_id)
                    /\ UNCHANGED already_done_count
    /\ UNCHANGED <<column_names, csv_file, convVars, playlists, pc, xml,
                   existing_tracks, already_imported, scanVars, histVars, searchVars>>

\* the number of leaf playlists _process_node counts
RECURSIVE CountPlaylists(_)
CountPlaylists(nodes) ==
    IF nodes = <<>> THEN 0
    ELSE (IF Head(nodes).type = "playlist" THEN 1
          ELSE CountPlaylists(Head(nodes).children))
         + CountPlaylists(Tail(nodes))

\* the summary import_xml prints
Summary(name, imported, already_done, skipped) ==
    << <<"Tracks processed", Str(num_tracks(name))>>,
       <<"Tracks imported", Str(imported)>>,
       <<"Tracks already done", Str(already_done)>>,
       <<"Tracks skipped", Str(skipped)>>,
       <<"Playlists", Str(CountPlaylists(Catalog(name).playlists))>> >>

\* phase 4: DELETE FROM playlists, _import_playlists, the final commit
ImportPlaylists ==
    /\ pc = "import"
    /\ idx > num_tracks(xml)
    /\ playlists' = RebuildPlaylists(playlists, tracks, xml)
    /\ committed' = Store(tracks, cue_points, playlists')
    /\ printed' = printed \o Summary(xml, imported_count, already_done_count,
                                     skipped_count)
    /\ pc' = "idle"
    /\ prevRun' = [xml |-> xml, cue_points |-> cue_points, playlists |-> playlists']
    /\ lastOp' = Op("import_done", 0)
    /\ xml' = "none"
    /\ idx' = 0
    /\ existing_tracks' = <<>>
    /\ already_imported' = {}
    /\ UNCHANGED <<column_names, csv_file, convVars, tracks, cue_points, scanVars,
                   imported_count, skipped_count, already_done_count, ops, scan0,
                   import0, searchVars>>

---------------------------------------------------------------------------

---------------------------------------------------------------------------
(* search.py: the special queries that read the store *)

\* GROUP_CONCAT(x, ', ') over a sequence of non-NULL texts
RECURSIVE GroupConcat(_)
GroupConcat(texts) ==
    IF Len(texts) = 1 THEN Head(texts)
    ELSE Head(texts) \o <<",", " ">> \o GroupConcat(Tail(texts))

\* the characters of the model, in code-point order (BINARY collation)
CodePoints ==
    <<"%", ".", "/">> \o Digits \o Letters \o <<"_">> \o LowerLetters

Code(c) == CHOOSE i \in 1..Len(CodePoints) : CodePoints[i] = c

\* memcmp order of two texts
RECURSIVE TextLess(_, _)
TextLess(s, t) ==
    IF t = <<>> THEN FALSE
    ELSE IF s = <<>> THEN TRUE
    ELSE IF Head(s) # Head(t) THEN Code(Head(s)) < Code(Head(t))
    ELSE TextLess(Tail(s), Tail(t))

\* ORDER BY on one text column, ascending: NULL sorts first
ValueLess(x, y) ==
    IF IsNull(y) THEN FALSE
    ELSE IF IsNull(x) THEN TRUE
    ELSE TextLess(x[1], y[1])

\* SELECT filename_lower, COUNT(*), GROUP_CONCAT(source_label, ', ')
\* FROM tracks GROUP BY filename_lower HAVING COUNT(*) > 1
\* ORDER BY filename_lower.  The labels of a group are concatenated in the
\* order of the rows (GROUP_CONCAT skips NULL, and is NULL if all are)
_show_duplicates(t) ==
    LET group(k) == SelectSeq(t, LAMBDA r : r.filename_lower = k)
        keys == {t[i].filename_lower : i \in Ids(t)}
        dup == {k \in keys : Len(group(k)) > 1}
        labels(k) == SelectSeq([i \in 1..Len(group(k)) |-> group(k)[i].source_label],
                               LAMBDA l : ~IsNull(l))
        row(k) == [filename_lower |-> k,
                   count |-> Len(group(k)),
                   sources |-> IF labels(k) = <<>> THEN NULL
                               ELSE Some(GroupConcat(
                                   [i \in 1..Len(labels(k)) |-> labels(k)[i][1]]))]
        n == Cardinality(dup)
        order == CHOOSE f \in [1..n -> dup] :
                    \A i, j \in 1..n : i < j => ValueLess(f[i], f[j])
    IN  [i \in 1..n |-> row(order[i])]

\* search --duplicates
ShowDuplicates ==
    /\ pc = "idle"
    /\ rows' = _show_duplicates(tracks)
    /\ args' = [set |-> FALSE]
    /\ lastOp' = Op("duplicates", 0)
    /\ printed' = <<>>
    /\ UNCHANGED <<column_names, csv_file, convVars, storeVars, pc, scanVars,
                   importVars, histVars, committed>>

NoRun == [xml |-> "none", cue_points |-> <<>>, playlists |-> <<>>]

NoArgs == [set |-> FALSE]

Init ==
    /\ tracks = <<>>
    /\ cue_points = <<>>
    /\ playlists = <<>>
    /\ pc = "idle"
    /\ scan_files = <<>>
    /\ scan_label = <<>>
    /\ xml = "none"
    /\ idx = 0
    /\ existing_tracks = <<>>
    /\ already_imported = {}
    /\ imported_count = 0
    /\ skipped_count = 0
    /\ already_done_count = 0
    /\ prevRun = NoRun
    /\ lastOp = Op("none", 0)
    /\ ops = 0
    /\ scan0 = [count |-> 0, indexed |-> FALSE, directory |-> <<>>]
    /\ count = 0
    /\ import0 = <<>>
    /\ committed = Store(tracks, cue_points, playlists)
    /\ args = NoArgs
    /\ rows = <<>>
    /\ column_names = <<>>
    /\ csv_file = NULL
    /\ printed = <<>>
    /\ volume_mappings = NULL
    /\ conv_path = NULL
    /\ converted = <<>>

Next ==
    \/ \E directory \in ScanPaths, label \in Labels : ScanStart(directory, label)
    \/ \E directory \in ScanPaths, label \in Labels : ScanRaise(directory, label)
    \/ ScanFile
    \/ ScanFinish
    \/ \E name \in XmlFiles : ImportStart(name)
    \/ \E name \in XmlFiles : ImportRaise(name)
    \/ ImportTrack
    \/ ImportPlaylists
    \/ ShowDuplicates

Spec == Init /\ [][Next]_vars

\* the process ends part-way through a scan or an import (it is killed, or
\* an exception leaves the loop): the connection is closed without a commit
\* and the tables are what the last commit made them
Abort ==
    /\ pc \in {"scan", "import"}
    /\ tracks' = committed.tracks
    /\ cue_points' = committed.cue_points
    /\ playlists' = committed.playlists
    /\ pc' = "idle"
    /\ scan_files' = <<>>
    /\ scan_label' = <<>>
    /\ xml' = "none"
    /\ idx' = 0
    /\ existing_tracks' = <<>>
    /\ already_imported' = {}
    /\ lastOp' = Op("abort", 0)
    /\ UNCHANGED <<count, imported_count, skipped_count, already_done_count,
                   histVars, searchVars, exportVars, convVars, committed>>

AbortNext == Next \/ Abort

SpecAbort == Init /\ [][AbortNext]_vars

---------------------------------------------------------------------------
(* Claims about the scanner and the importer, checked under Spec *)

ScanOps == {"scan_start", "scan_not_audio", "scan_unreadable", "scan_insert",
            "scan_update", "scan_done"}

\* C1: after any sequence of scan_directory and import_xml steps no two track
\* rows share a filepath, and a scan of a directory whose audio files were all
\* indexed when it started updates the existing rows and leaves the number of
\* track rows as it was.
C1_UniqueFilepath ==
    /\ \A i, j \in Ids(tracks) : tracks[i].filepath = tracks[j].filepath => i = j
    /\ (lastOp.op \in ScanOps /\ scan0.indexed) => Len(tracks) = scan0.count
    /\ lastOp.op = "scan_update" =>
          /\ lastOp.id <= scan0.count
          /\ tracks[lastOp.id].source_label = Some(scan_label)

\* a rescan has just updated an indexed row of a fully indexed directory
C1_Witness ==
    /\ lastOp.op = "scan_update"
    /\ scan0.indexed
    /\ scan0.count >= 2

\* C2: a second import_xml of the same catalog, right after the first, leaves
\* every track's cue points and the playlist rows as the first run left them,
\* also when catalog tracks share a file name.
C2_ReimportIdempotent ==
    [][(pc = "import" /\ pc' = "idle" /\ prevRun.xml = xml)
          => /\ cue_points' = prevRun.cue_points
             /\ playlists' = prevRun.playlists]_vars

C3_TextFields == {"title", "artist", "album", "genre", "musical_key", "comments",
                  "label", "remixer"}
C3_NumFields == {"bpm", "bitrate", "sample_rate", "duration_sec"}

\* the catalog attribute import_xml reads for a column
C3_CatalogValue(track, f) ==
    CASE f = "title" -> track.Name [] f = "artist" -> track.Artist
      [] f = "album" -> track.Album [] f = "genre" -> track.Genre
      [] f = "musical_key" -> track.Tonality [] f = "comments" -> track.Comments
      [] f = "label" -> track.Label [] f = "remixer" -> track.Remixer
      [] f = "bpm" -> track.AverageBpm [] f = "bitrate" -> track.BitRate
      [] f = "sample_rate" -> track.SampleRate
      [] f = "duration_sec" -> track.TotalTime

\* C3: a step of import_xml never replaces a non-empty stored text (or a
\* non-null stored number) of an existing track by an empty or null one: when
\* the catalog value is empty or absent the stored value is kept.
C3_NoEmptyOverwrite ==
    [][(pc = "import" /\ idx <= num_tracks(xml))
          => \A i \in Ids(tracks) :
                /\ \A f \in C3_TextFields :
                      /\ NonEmpty(tracks[i][f]) => NonEmpty(tracks'[i][f])
                      /\ ~NonEmpty(C3_CatalogValue(Catalog(xml).tracks[idx], f))
                            => tracks'[i][f] = tracks[i][f]
                /\ \A f \in C3_NumFields :
                      /\ ~IsNull(tracks[i][f]) => ~IsNull(tracks'[i][f])
                      /\ ~NonEmpty(C3_CatalogValue(Catalog(xml).tracks[idx], f))
                            => tracks'[i][f] = tracks[i][f]]_vars

\* the filepath conflict path has just updated a row whose stored title was
\* kept although the catalog track has an empty Name, and whose stored
\* sample rate was kept
C3_Witness ==
    /\ lastOp.op = "import_conflict"
    /\ ~NonEmpty(Catalog(xml).tracks[idx - 1].Name)
    /\ NonEmpty(tracks[lastOp.id].title)
    /\ IsEmptyText(Catalog(xml).tracks[idx - 1].TotalTime)

\* the same on the filename match path
C3_WitnessFilenameMatch ==
    /\ lastOp.op = "import_update"
    /\ ~NonEmpty(Catalog(xml).tracks[idx - 1].Name)
    /\ NonEmpty(tracks[lastOp.id].title)
    /\ IsNull(Catalog(xml).tracks[idx - 1].BitRate)
    /\ ~IsNull(tracks[lastOp.id].bitrate)

\* the leaf playlists of a catalog, each with its slash-joined folder path
RECURSIVE C4_Leaves(_, _)
C4_Leaves(nodes, prefix) ==
    IF nodes = <<>> THEN <<>>
    ELSE LET n == Head(nodes)
             path == IF prefix = <<>> THEN n.name ELSE prefix \o <<"/">> \o n.name
         IN  (IF n.type = "folder" THEN C4_Leaves(n.children, path)
              ELSE << [name |-> n.name, path |-> path, members |-> n.tracks] >>)
             \o C4_Leaves(Tail(nodes), prefix)

C4_Resolves(member) == \E i \in Ids(tracks) : tracks[i].rb_track_id = Some(Str(member))

\* C4: when import_xml has completed, the playlists table holds exactly one
\* row per member of each leaf playlist whose catalog track id resolves to a
\* stored track, with the leaf's name, its slash-joined path and the member's
\* 1-based position, and no other row.
C4_PlaylistsRebuilt ==
    lastOp.op = "import_done" =>
        LET leaves == C4_Leaves(Catalog(prevRun.xml).playlists, <<>>)
            slots == UNION {{<<k, p>> : p \in {q \in 1..Len(leaves[k].members) :
                                                  C4_Resolves(leaves[k].members[q])}} :
                            k \in 1..Len(leaves)}
            RowOf(r, s) ==
                /\ r.playlist_name = leaves[s[1]].name
                /\ r.playlist_path = leaves[s[1]].path
                /\ r.position = s[2]
                /\ tracks[r.track_id].rb_track_id = Some(Str(leaves[s[1]].members[s[2]]))
        IN  /\ Len(playlists) = Cardinality(slots)
            /\ \A s \in slots :
                  Cardinality({n \in 1..Len(playlists) : RowOf(playlists[n], s)}) = 1
            /\ \A n \in 1..Len(playlists) : \E s \in slots : RowOf(playlists[n], s)

\* an import of Catalog2 has completed after an import of Catalog1 (whose
\* playlist Q is gone): a row of a nested folder, a member that resolves to
\* no track
C4_Witness ==
    /\ lastOp.op = "import_done"
    /\ prevRun.xml = "Catalog2"
    /\ \E i \in Ids(tracks) : tracks[i].rb_track_id = Some(<<"2">>)
    /\ \E n \in 1..Len(playlists) :
          /\ playlists[n].playlist_path = <<"F", "/", "G", "/", "P">>
          /\ playlists[n].position = 1
    /\ ~C4_Resolves(1)

\* C5: a step of scan_directory changes neither in_rekordbox, rb_track_id nor
\* rb_location of an indexed track, nor any cue point or playlist row.
C5_ScanKeepsRekordbox ==
    [][pc = "scan"
          => /\ cue_points' = cue_points
             /\ playlists' = playlists
             /\ \A i \in Ids(tracks) :
                   /\ i \in Ids(tracks')
                   /\ tracks'[i].in_rekordbox = tracks[i].in_rekordbox
                   /\ tracks'[i].rb_track_id = tracks[i].rb_track_id
                   /\ tracks'[i].rb_location = tracks[i].rb_location]_vars

\* a rescan has just updated a track flagged in_rekordbox = 1 that owns cue
\* points and is a member of a playlist
C5_Witness ==
    /\ lastOp.op = "scan_update"
    /\ tracks[lastOp.id].in_rekordbox = 1
    /\ CuesOf(cue_points, lastOp.id) # <<>>
    /\ \E n \in 1..Len(playlists) : playlists[n].track_id = lastOp.id

---------------------------------------------------------------------------
(* search.py: the SQL operators of the search query *)

\* SQLite's LIKE on two texts: % matches any run of characters, _ matches
\* any one character, every other character matches itself without case
RECURSIVE Like(_, _)
Like(s, pat) ==
    IF pat = <<>> THEN s = <<>>
    ELSE IF Head(pat) = "%"
         THEN Like(s, Tail(pat)) \/ (s # <<>> /\ Like(Tail(s), pat))
    ELSE IF s = <<>> THEN FALSE
    ELSE IF Head(pat) = "_" THEN Like(Tail(s), Tail(pat))
    ELSE LowerChar(Head(s)) = LowerChar(Head(pat)) /\ Like(Tail(s), Tail(pat))

\* column LIKE ?  (NULL LIKE ? is NULL: the row is not selected)
SqlLike(v, pat) == ~IsNull(v) /\ Like(v[1], pat)

\* re.match at the start of s, re.IGNORECASE, for patterns made of literal
\* characters and "."
RECURSIVE RegexMatchHere(_, _)
RegexMatchHere(pat, s) ==
    IF pat = <<>> THEN TRUE
    ELSE IF s = <<>> THEN FALSE
    ELSE IF Head(pat) = "." THEN RegexMatchHere(Tail(pat), Tail(s))
    ELSE LowerChar(Head(pat)) = LowerChar(Head(s))
         /\ RegexMatchHere(Tail(pat), Tail(s))

\* re.search(pat, s, re.IGNORECASE): a match at some offset; a leading "^"
\* anchors the match at offset 0
RegexSearch(pat, s) ==
    IF pat # <<>> /\ Head(pat) = "^" THEN RegexMatchHere(Tail(pat), s)
    ELSE \E i \in 0..Len(s) : RegexMatchHere(pat, SubSeq(s, i + 1, Len(s)))

\* lambda pat, val: bool(re.search(pat, val, re.IGNORECASE)) if val else False
REGEXP(pat, val) == NonEmpty(val) /\ RegexSearch(pat, val[1])

\* ORDER BY t.artist, t.title: r sorts strictly before q
OrderBefore(r, q) ==
    \/ ValueLess(r.artist, q.artist)
    \/ r.artist = q.artist /\ ValueLess(r.title, q.title)

\* LIMIT n: a negative n is no limit
Limit(s, n) == IF n < 0 \/ n >= Len(s) THEN s ELSE SubSeq(s, 1, n)

---------------------------------------------------------------------------
(* search.py: _build_search_query and the general search *)

Cond(op, cols, param) == [op |-> op, cols |-> cols, param |-> param]

FreeTextCols ==
    <<"title", "artist", "album", "filename", "genre", "remixer", "label",
      "comments">>

\* f"%{value}%"
Wrap(value) == <<"%">> \o value \o <<"%">>

\* if args.query: ... (a given, non-empty text)
Given(v) == NonEmpty(v)

\* lines 145-161: the free-text condition
FreeTextFilter(a) ==
    IF a.regex /\ Given(a.query) THEN <<Cond("REGEXP", FreeTextCols, a.query[1])>>
    ELSE IF Given(a.query) THEN <<Cond("LIKE", FreeTextCols, Wrap(a.query[1]))>>
    ELSE <<>>

\* lines 164-202: one field-specific filter
FieldFilter(a, value, col) ==
    IF ~Given(value) THEN <<>>
    ELSE IF a.re THEN <<Cond("REGEXP", <<col>>, value[1])>>
    ELSE <<Cond("LIKE", <<col>>, Wrap(value[1]))>>

SourceFilter(a) ==
    IF Given(a.source) THEN <<Cond("LIKE", <<"source_label">>, Wrap(a.source[1]))>>
    ELSE <<>>

FormatFilter(a) ==
    IF Given(a.format) THEN <<Cond("=", <<"file_format">>, a.format)>> ELSE <<>>

\* mutant: if args.bpm_min:  (a bound of 0 sets no condition)
BpmMinFilter_Truthy(a) ==
    IF ~IsNull(a.bpm_min) /\ NumVal(a.bpm_min) # 0
    THEN <<Cond(">=", <<"bpm">>, a.bpm_min)>> ELSE <<>>

\* if args.bpm_min is not None
BpmMinFilter(a) ==
    IF ~IsNull(a.bpm_min) THEN <<Cond(">=", <<"bpm">>, a.bpm_min)>> ELSE <<>>

BpmMaxFilter(a) ==
    IF ~IsNull(a.bpm_max) THEN <<Cond("<=", <<"bpm">>, a.bpm_max)>> ELSE <<>>

RekordboxFilter(a) ==
    (IF a.in_rekordbox THEN <<Cond("=", <<"in_rekordbox">>, 1)>> ELSE <<>>)
    \o (IF a.not_in_rekordbox THEN <<Cond("=", <<"in_rekordbox">>, 0)>> ELSE <<>>)

\* the conditions list and the LIMIT parameter
_build_search_query(a) ==
    [conditions |->
        FreeTextFilter(a)
        \o FieldFilter(a, a.artist, "artist")
        \o FieldFilter(a, a.title, "title")
        \o FieldFilter(a, a.filename, "filename")
        \o FieldFilter(a, a.genre, "genre")
        \o FieldFilter(a, a.key, "musical_key")
        \o SourceFilter(a)
        \o FormatFilter(a)
        \o BpmMinFilter(a)
        \o BpmMaxFilter(a)
        \o RekordboxFilter(a),
     limit |-> a.limit]

\* one condition of the WHERE clause on one row of tracks; a comparison
\* with NULL does not select the row
Holds(c, t) ==
    IF c.op = "REGEXP" THEN \E i \in 1..Len(c.cols) : REGEXP(c.param, t[c.cols[i]])
    ELSE IF c.op = "LIKE" THEN \E i \in 1..Len(c.cols) : SqlLike(t[c.cols[i]], c.param)
    ELSE IF c.op = "=" THEN t[c.cols[1]] = c.param
    ELSE IF c.op = ">=" THEN ~IsNull(t.bpm) /\ NumVal(t.bpm) >= NumVal(c.param)
    ELSE ~IsNull(t.bpm) /\ NumVal(t.bpm) <= NumVal(c.param)

\* mutant: " OR ".join(conditions)
Where_Or(conditions, t) ==
    conditions = <<>> \/ \E i \in 1..Len(conditions) : Holds(conditions[i], t)

\* " AND ".join(conditions) if conditions else "1=1"
Where(conditions, t) == \A i \in 1..Len(conditions) : Holds(conditions[i], t)

\* 'hot_cue_%'
hot_cue_pattern == hot_cue_ \o <<"%">>

\* Row with COUNT(*) in place of COUNT(cp.id): the row the LEFT JOIN keeps
\* for a track without cue points is counted
Row_CountStar(t, cp, id) ==
    [id |-> id, artist |-> t[id].artist, title |-> t[id].title,
     filename |-> t[id].filename, filepath |-> t[id].filepath,
     bpm |-> t[id].bpm, musical_key |-> t[id].musical_key,
     source_label |-> t[id].source_label, in_rekordbox |-> t[id].in_rekordbox,
     num_hot_cues |->
        Cardinality({n \in 1..Len(cp) :
            cp[n].track_id = id /\ Like(cp[n].cue_type, hot_cue_pattern)}),
     num_cues |->
        IF \E n \in 1..Len(cp) : cp[n].track_id = id
        THEN Cardinality({n \in 1..Len(cp) : cp[n].track_id = id})
        ELSE 1]

\* the SELECT list of one group: the track's columns and its cue counts
Row(t, cp, id) ==
    [id |-> id, artist |-> t[id].artist, title |-> t[id].title,
     filename |-> t[id].filename, filepath |-> t[id].filepath,
     bpm |-> t[id].bpm, musical_key |-> t[id].musical_key,
     source_label |-> t[id].source_label, in_rekordbox |-> t[id].in_rekordbox,
     num_hot_cues |->
        Cardinality({n \in 1..Len(cp) :
            cp[n].track_id = id /\ Like(cp[n].cue_type, hot_cue_pattern)}),
     num_cues |-> Cardinality({n \in 1..Len(cp) : cp[n].track_id = id})]

\* WHERE ... GROUP BY t.id: the ids of the selected tracks
Matching(a, t) == {id \in Ids(t) : Where(_build_search_query(a).conditions, t[id])}

\* ORDER BY t.artist, t.title: every order of the selected rows the sort may
\* produce (rows with equal keys come in any order)
Ordered(a, t, cp) ==
    LET M == Matching(a, t)
        n == Cardinality(M)
    IN  {[i \in 1..n |-> Row(t, cp, f[i])] :
            f \in {g \in [1..n -> M] :
                     /\ \A i, j \in 1..n : i # j => g[i] # g[j]
                     /\ \A i, j \in 1..n : i < j => ~OrderBefore(t[g[j]], t[g[i]])}}

\* cursor.execute(sql, params); cursor.fetchall()
Results(a, t, cp) == {Limit(s, _build_search_query(a).limit) : s \in Ordered(a, t, cp)}

---------------------------------------------------------------------------
(* The stores and the arguments of the searches *)

\* a row of tracks as a scan, or a scan and an import, leave it
SearchTrack(filename, title, artist, genre, key, bpm, source, in_rb) ==
    [NewTrack EXCEPT
        !.filepath = Some(<<"/">> \o filename),
        !.filename = Some(filename),
        !.filename_lower = Some(Lower(filename)),
        !.source_label = Some(source),
        !.title = title, !.artist = artist, !.genre = genre,
        !.musical_key = key, !.bpm = bpm,
        !.file_format = Some(Lower(PathSuffix(filename))),
        !.file_size = Num(1),
        !.in_rekordbox = in_rb,
        !.rb_track_id = IF in_rb = 1 THEN Some(<<"1">>) ELSE NULL,
        !.rb_location = IF in_rb = 1 THEN Some(<<"/">> \o filename) ELSE NULL]

SearchTracks ==
    << SearchTrack(<<"a", ".", "m">>, Some(<<"x">>), Some(<<"a", "b">>),
                   Some(<<"g">>), Some(<<"A", "m">>), Num(120), <<"U", "1">>, 1),
       SearchTrack(<<"A", "_", "b", ".", "m">>, Some(<<"x">>), Some(<<"a", "b">>),
                   NULL, NULL, Num(125), <<"U", "2">>, 0),
       SearchTrack(<<"c", ".", "M">>, Some(<<"a", ".">>), NULL,
                   EmptyText, NULL, NULL, <<"U", "1">>, 0),
       SearchTrack(<<"b", ".", "w">>, NULL, Some(<<"B">>),
                   Some(<<"G">>), Some(<<"B", "m">>), Num(130), <<"U", "2">>, 1),
       SearchTrack(<<"d", ".", "m">>, Some(<<"A", "b">>), EmptyText,
                   NULL, NULL, Num(0), <<"U", "1">>, 0) >>

\* the POSITION_MARKs imported for each of them
SearchMarks ==
    << <<Mark(Num(-1), Num(1)), Mark(Num(0), Num(2))>>,
       <<>>,
       <<>>,
       <<Mark(Num(1), Num(3))>>,
       <<>> >>

\* the stores: up to MaxTracks of the rows, in the order of the list
Stores ==
    {s \in UNION {[1..n -> 1..Len(SearchTracks)] : n \in 0..MaxTracks} :
        \A i, j \in 1..Len(s) : i < j => s[i] < s[j]}

RECURSIVE StoreCues(_, _)
StoreCues(s, id) ==
    IF id > Len(s) THEN <<>>
    ELSE CueRows(id, SearchMarks[s[id]]) \o StoreCues(s, id + 1)

\* the playlists table an import leaves for the tracks of a store: playlist
\* P in folder F with the fourth and the first track, playlist Q with the
\* first track twice, playlist fp in folder G with the fourth track
SearchPlaylists ==
    << [name |-> <<"P">>, path |-> <<"F", "/", "P">>, members |-> <<4, 1>>],
       [name |-> <<"Q">>, path |-> <<"Q">>, members |-> <<1, 1>>],
       [name |-> <<"f", "p">>, path |-> <<"G", "/", "f", "p">>, members |-> <<4>>] >>

RECURSIVE StoreMembers(_, _, _)
StoreMembers(s, playlist, position) ==
    IF position > Len(playlist.members) THEN <<>>
    ELSE LET ids == {id \in 1..Len(s) : s[id] = playlist.members[position]}
         IN  (IF ids # {}
              THEN << [playlist_name |-> playlist.name,
                       playlist_path |-> playlist.path,
                       track_id |-> MinOf(ids), position |-> position] >>
              ELSE <<>>)
             \o StoreMembers(s, playlist, position + 1)

RECURSIVE StorePlaylists(_, _)
StorePlaylists(s, k) ==
    IF k > Len(SearchPlaylists) THEN <<>>
    ELSE StoreMembers(s, SearchPlaylists[k], 1) \o StorePlaylists(s, k + 1)

\* argparse: the search arguments when no option is given
NoFilters ==
    [query |-> NULL, regex |-> FALSE, artist |-> NULL, title |-> NULL,
     filename |-> NULL, genre |-> NULL, key |-> NULL, source |-> NULL,
     format |-> NULL, bpm_min |-> NULL, bpm_max |-> NULL,
     in_rekordbox |-> FALSE, not_in_rekordbox |-> FALSE, re |-> FALSE,
     limit |-> 100]

Filters ==
    {"query", "artist", "title", "filename", "genre", "key", "source",
     "format", "bpm_min", "bpm_max", "in_rekordbox", "not_in_rekordbox"}

\* the option values the searches are run with
Settings ==
    << <<"query", NULL>>,
       <<"query", Some(<<"a">>)>>, <<"query", Some(<<"a", ".">>)>>,
       <<"query", Some(<<"a", "_">>)>>, <<"query", Some(<<"B">>)>>,
       <<"artist", EmptyText>>,
       <<"artist", Some(<<"a", ".">>)>>, <<"artist", Some(<<"a", "_">>)>>,
       <<"title", Some(<<"X">>)>>,
       <<"filename", Some(<<".", "m">>)>>,
       <<"genre", Some(<<"g">>)>>,
       <<"key", Some(<<"^", "a">>)>>,
       <<"source", Some(<<"u">>)>>, <<"source", Some(<<"U", "_">>)>>,
       <<"format", Some(<<".", "m">>)>>, <<"format", Some(<<".", "M">>)>>,
       <<"bpm_min", Num(0)>>, <<"bpm_min", Num(125)>>,
       <<"bpm_max", Num(125)>>,
       <<"in_rekordbox", TRUE>>, <<"not_in_rekordbox", TRUE>> >>

Limits == (-1)..MaxTracks

\* up to two options, the two flags and --limit
SearchArgs ==
    {[[[NoFilters EXCEPT ![Settings[i][1]] = Settings[i][2]]
                  EXCEPT ![Settings[j][1]] = Settings[j][2]]
                  EXCEPT !.regex = r, !.re = e, !.limit = l] :
        i \in 1..Len(Settings), j \in 1..Len(Settings), r \in BOOLEAN,
        e \in BOOLEAN, l \in Limits}

---------------------------------------------------------------------------
(* display.py: print_results, on the tuples the searches hand to it *)

\* a Python value with its type: None, a str, a float or an int
PyNone == [type |-> "NoneType", v |-> <<>>]
PyText(col) == IF IsNull(col) THEN PyNone ELSE [type |-> "str", v |-> col[1]]
PyReal(col) == IF IsNull(col) THEN PyNone ELSE [type |-> "float", v |-> NumVal(col)]
PyInt(n) == [type |-> "int", v |-> n]

\* bool(x)
Truthy(x) ==
    IF x.type = "NoneType" THEN FALSE
    ELSE IF x.type = "str" THEN Len(x.v) > 0
    ELSE x.v # 0

\* x == 0
IsZero(x) == x.type \in {"int", "float"} /\ x.v = 0

\* f"{x}": the numbers of the model are naturals, a float is written with
\* its ".0"
PyStr(x) ==
    IF x.type = "NoneType" THEN <<"N", "o", "n", "e">>
    ELSE IF x.type = "str" THEN x.v
    ELSE IF x.type = "float" THEN Str(x.v) \o <<".", "0">>
    ELSE Str(x.v)

\* f"{x:.0f}" raises ValueError (Unknown format code 'f') for a str
FormatRaises(x) == x.type = "str"

\* f"{x:.0f}" for a number
Format0f(x) == Str(x.v)

\* tuple(row) for a row of the search queries: the eleven columns of the
\* SELECT list, in its order (search.py lines 232-244 and 354-361)
AsTuple(r) ==
    << PyInt(r.id), PyText(r.artist), PyText(r.title), PyText(r.filename),
       PyText(r.filepath), PyReal(r.bpm), PyText(r.musical_key),
       PyText(r.source_label), PyInt(r.in_rekordbox), PyInt(r.num_hot_cues),
       PyInt(r.num_cues) >>

\* line 26: the nine names are bound to row[1:10], the second to the tenth
\* element of the tuple
Unpack(row) ==
    [artist |-> row[2], title |-> row[3], filename |-> row[4], bpm |-> row[5],
     musical_key |-> row[6], source_label |-> row[7], in_rekordbox |-> row[8],
     num_hot_cues |-> row[9], num_cues |-> row[10]]

Question == <<"?">>
BadgeRB == <<" ", "[", "R", "B", "]">>
BadgeNoCues == <<" ", " ", "[", "N", "O", " ", "C", "U", "E", "S", "]">>
BadgeCues(hot, total) ==
    <<" ", " ", "[">> \o hot \o <<"H", "/">> \o total \o <<"C", "]">>

\* lines 29-35: the line with the artist and the title (or the file name)
TitleLine(u) ==
    <<"title",
      IF Truthy(u.artist) THEN PyStr(u.artist) ELSE <<>>,
      PyStr(IF Truthy(u.title) THEN u.title ELSE u.filename)>>

\* line 38 raises for this row
RowRaises(u) == Truthy(u.bpm) /\ FormatRaises(u.bpm)

\* lines 40-51: the badges
Badges(u) ==
    IF ~Truthy(u.in_rekordbox) THEN <<>>
    ELSE BadgeRB \o
         (IF IsZero(u.num_cues) THEN BadgeNoCues
          ELSE IF u.num_hot_cues.type # "NoneType"
               THEN BadgeCues(PyStr(u.num_hot_cues), PyStr(u.num_cues))
               ELSE <<>>)

\* lines 38-53: the line with the tempo, the key, the source label and the
\* badges
MetaLine(u) ==
    <<"meta",
      IF Truthy(u.bpm) THEN Format0f(u.bpm) ELSE Question,
      IF Truthy(u.musical_key) THEN PyStr(u.musical_key) ELSE Question,
      PyStr(u.source_label),
      Badges(u)>>

\* the traceback of the ValueError that ends the command
FormatError == <<"ValueError", "Unknown format code 'f' for object of type 'str'">>

\* lines 24-53: the loop over the rows; it ends where line 38 raises
RECURSIVE PrintRows(_)
PrintRows(tuples) ==
    IF tuples = <<>> THEN <<>>
    ELSE LET u == Unpack(Head(tuples))
         IN  IF RowRaises(u) THEN <<TitleLine(u), FormatError>>
             ELSE <<TitleLine(u), MetaLine(u)>> \o PrintRows(Tail(tuples))

\* print_results(rows, header), rows being the rows of a search query
print_results(r, header) ==
    IF r = <<>> THEN << <<"header", header, Str(0)>> >>
    ELSE << <<"header", header, Str(Len(r))>> >> \o
         PrintRows([k \in 1..Len(r) |-> AsTuple(r[k])])

\* print_results raised
Raised(out) == out # <<>> /\ out[Len(out)][1] = "ValueError"

\* search.py lines 55-77: the header of the general search
Header(a) ==
    IF NonEmpty(a.query) THEN <<"Search results for", a.query[1]>>
    ELSE IF NonEmpty(a.artist) THEN <<"Tracks by", a.artist[1]>>
    ELSE IF NonEmpty(a.title) THEN <<"Tracks titled", a.title[1]>>
    ELSE IF NonEmpty(a.filename) THEN <<"Files matching", a.filename[1]>>
    ELSE IF NonEmpty(a.genre) THEN <<"Genre:", a.genre[1]>>
    ELSE IF NonEmpty(a.key) THEN <<"Key:", a.key[1]>>
    ELSE IF NonEmpty(a.source) THEN <<"Source:", a.source[1]>>
    ELSE IF NonEmpty(a.format) THEN <<"Format:", a.format[1]>>
    ELSE IF a.in_rekordbox THEN <<"Rekordbox tracks", <<>>>>
    ELSE IF a.not_in_rekordbox THEN <<"Non-rekordbox tracks", <<>>>>
    ELSE <<"All tracks", <<>>>>

---------------------------------------------------------------------------
(* search.py: the search commands *)

\* search_tracks, the general search: build the query, run it, keep the rows
\* and print them
Search ==
    /\ pc = "search"
    /\ \E a \in SearchArgs :
         /\ args' = a
         /\ rows' \in Results(a, tracks, cue_points)
         /\ printed' = print_results(rows', Header(a))
    /\ pc' = "idle"
    /\ lastOp' = Op("search", 0)
    /\ UNCHANGED <<column_names, csv_file, convVars, storeVars, scanVars, importVars,
                   histVars, committed>>

\* the values of --playlist the searches are run with
PlaylistQueries ==
    {<<"q">>, <<"p">>, <<"F", ".">>, <<"F", "_">>}

PlaylistArgs ==
    {[playlist |-> q, re |-> e, limit |-> l] :
        q \in PlaylistQueries, e \in BOOLEAN, l \in Limits}

\* lines 322-344: the (playlist_name, playlist_path) pairs that match
MatchingPlaylists(pl, a) ==
    {pair \in {<<pl[n].playlist_name, pl[n].playlist_path>> : n \in 1..Len(pl)} :
        IF a.re
        THEN RegexSearch(a.playlist, pair[2]) \/ RegexSearch(a.playlist, pair[1])
        ELSE Like(pair[1], Wrap(a.playlist)) \/ Like(pair[2], Wrap(a.playlist))}

\* lines 354-369: the rows of one section.  GROUP BY t.id makes one row of a
\* track that is in the playlist several times: its cue points are counted
\* once per membership and pl.position is that of any one of them
SectionRows(t, cp, pl, path, limit) ==
    LET of(id) == {n \in 1..Len(pl) :
                      pl[n].playlist_path = path /\ pl[n].track_id = id}
        M == {id \in Ids(t) : of(id) # {}}
        n == Cardinality(M)
        row(id, pos) ==
            LET r == Row(t, cp, id)
            IN  [id |-> id, artist |-> r.artist, title |-> r.title,
                 filename |-> r.filename, filepath |-> r.filepath, bpm |-> r.bpm,
                 musical_key |-> r.musical_key, source_label |-> r.source_label,
                 in_rekordbox |-> r.in_rekordbox,
                 num_hot_cues |-> Cardinality(of(id)) * r.num_hot_cues,
                 num_cues |-> Cardinality(of(id)) * r.num_cues,
                 position |-> pos]
    IN  {Limit([i \in 1..n |-> row(g[i], p[g[i]])], limit) :
            <<g, p>> \in
                {gp \in [1..n -> M] \X [M -> {pl[k].position : k \in 1..Len(pl)}] :
                    /\ \A i, j \in 1..n : i # j => gp[1][i] # gp[1][j]
                    /\ \A id \in M : \E k \in of(id) : pl[k].position = gp[2][id]
                    /\ \A i, j \in 1..n :
                          i < j => gp[2][gp[1][i]] <= gp[2][gp[1][j]]}}

\* lines 351-373: one section per matching playlist, in the order given; a
\* section without rows is not shown
RECURSIVE Sections(_, _, _, _, _)
Sections(t, cp, pl, pairs, limit) ==
    IF pairs = <<>> THEN {<<>>}
    ELSE {(IF r = <<>> THEN <<>>
           ELSE << [playlist_path |-> Head(pairs)[2], rows |-> r] >>) \o rest :
             r \in SectionRows(t, cp, pl, Head(pairs)[2], limit),
             rest \in Sections(t, cp, pl, Tail(pairs), limit)}

\* _search_playlist: the sections it selects (ORDER BY playlist_path)
_search_playlist(t, cp, pl, a) ==
    LET M == MatchingPlaylists(pl, a)
        n == Cardinality(M)
    IN  UNION {Sections(t, cp, pl, f, a.limit) :
                 f \in {g \in [1..n -> M] :
                          /\ \A i, j \in 1..n : i # j => g[i] # g[j]
                          /\ \A i, j \in 1..n :
                                i < j => ~TextLess(g[j][2], g[i][2])}}

\* line 373: what print_results writes for one section
PrintSection(section) ==
    print_results(section.rows, <<"Playlist:", section.playlist_path>>)

\* lines 351-373: the sections handed to print_results, one after the other;
\* the one for which it raises is the last
RECURSIVE Shown(_)
Shown(sections) ==
    IF sections = <<>> THEN <<>>
    ELSE IF Raised(PrintSection(Head(sections))) THEN <<Head(sections)>>
    ELSE <<Head(sections)>> \o Shown(Tail(sections))

RECURSIVE PrintSections(_)
PrintSections(sections) ==
    IF sections = <<>> THEN <<>>
    ELSE PrintSection(Head(sections)) \o PrintSections(Tail(sections))

\* search --playlist QUERY: the sections it selects and prints, or the
\* message of lines 346-348 when no playlist matches
SearchPlaylist ==
    /\ pc = "search"
    /\ \E a \in PlaylistArgs :
         /\ args' = a
         /\ \E sections \in _search_playlist(tracks, cue_points, playlists, a) :
               rows' = Shown(sections)
         /\ printed' =
               IF MatchingPlaylists(playlists, a) = {}
               THEN << <<"No playlists found matching", a.playlist>> >>
               ELSE PrintSections(rows')
    /\ pc' = "idle"
    /\ lastOp' = Op("search_playlist", 0)
    /\ UNCHANGED <<column_names, csv_file, convVars, storeVars, scanVars, importVars,
                   histVars, committed>>

\* a store, and the search command about to run on it
SearchInit ==
    /\ \E s \in Stores :
         /\ tracks = [id \in 1..Len(s) |-> SearchTracks[s[id]]]
         /\ cue_points = StoreCues(s, 1)
         /\ playlists = StorePlaylists(s, 1)
    /\ pc = "search"
    /\ scan_files = <<>>
    /\ scan_label = <<>>
    /\ xml = "none"
    /\ idx = 0
    /\ existing_tracks = <<>>
    /\ already_imported = {}
    /\ imported_count = 0
    /\ skipped_count = 0
    /\ already_done_count = 0
    /\ prevRun = NoRun
    /\ lastOp = Op("none", 0)
    /\ ops = 0
    /\ scan0 = [count |-> 0, indexed |-> FALSE, directory |-> <<>>]
    /\ count = 0
    /\ import0 = <<>>
    /\ committed = Store(tracks, cue_points, playlists)
    /\ args = NoArgs
    /\ rows = <<>>
    /\ column_names = <<>>
    /\ csv_file = NULL
    /\ printed = <<>>
    /\ volume_mappings = NULL
    /\ conv_path = NULL
    /\ converted = <<>>

SearchNext == Search \/ SearchPlaylist

SpecSearch == SearchInit /\ [][SearchNext]_vars

---------------------------------------------------------------------------
(* Properties of the general search, under SpecSearch *)

Searched == lastOp.op = "search"

RowIds(r) == {r[i].id : i \in 1..Len(r)}

RowSet(r) == {r[i] : i \in 1..Len(r)}

\* the filters an argument record sets
SetFilters(a) ==
    {f \in Filters :
        IF f \in {"in_rekordbox", "not_in_rekordbox"} THEN a[f]
        ELSE IF f \in {"bpm_min", "bpm_max"} THEN ~IsNull(a[f])
        ELSE Given(a[f])}

\* the same search with only the filters of F kept
Only(a, F) ==
    [NoFilters EXCEPT
        !.query = IF "query" \in F THEN a.query ELSE NULL,
        !.artist = IF "artist" \in F THEN a.artist ELSE NULL,
        !.title = IF "title" \in F THEN a.title ELSE NULL,
        !.filename = IF "filename" \in F THEN a.filename ELSE NULL,
        !.genre = IF "genre" \in F THEN a.genre ELSE NULL,
        !.key = IF "key" \in F THEN a.key ELSE NULL,
        !.source = IF "source" \in F THEN a.source ELSE NULL,
        !.format = IF "format" \in F THEN a.format ELSE NULL,
        !.bpm_min = IF "bpm_min" \in F THEN a.bpm_min ELSE NULL,
        !.bpm_max = IF "bpm_max" \in F THEN a.bpm_max ELSE NULL,
        !.in_rekordbox = ("in_rekordbox" \in F /\ a.in_rekordbox),
        !.not_in_rekordbox = ("not_in_rekordbox" \in F /\ a.not_in_rekordbox),
        !.regex = a.regex, !.re = a.re, !.limit = a.limit]

\* the cap cuts no result on this store
NoTruncation(a) == a.limit < 0 \/ a.limit >= Len(tracks)

\* case-insensitive substring containment
Contains(text, q) ==
    \E i \in 0..(Len(text) - Len(q)) :
        Lower(SubSeq(text, i + 1, i + Len(q))) = Lower(q)

C6_Body ==
    LET S == SetFilters(args)
    IN  /\ \E u \in Results(Only(args, {}), tracks, cue_points) :
              RowSet(rows) \subseteq RowSet(u)
        /\ Cardinality(S) = 2 =>
              \A f1 \in S : \A f2 \in S \ {f1} :
                  \E r1 \in Results(Only(args, {f1}), tracks, cue_points),
                     r2 \in Results(Only(args, {f2}), tracks, cue_points) :
                      RowSet(rows) = RowSet(r1) \cap RowSet(r2)

\* C6 as stated: for every store, every cap and every combination of
\* filters, the rows of a search are among the rows of the same search with
\* no filter set, and the rows of a search with two filters set are exactly
\* the rows common to the two searches with one of the filters each
C6_SubsetAndIntersection == Searched => C6_Body

\* C6, amended: for every store, every combination of filters and every cap
\* that cuts no result on the store (a cap of at least the number of tracks,
\* or a negative cap, which is no limit), the rows of a search are among the
\* rows of the same search with no filter set, and the rows of a search with
\* two filters set are exactly the rows common to the two searches with one
\* of the filters each
C6_SubsetAndIntersectionUncapped ==
    (Searched /\ NoTruncation(args)) => C6_Body

\* two filters are set, each alone returns more than the two together, and
\* the two together return a row
C6_Witness ==
    /\ Searched
    /\ NoTruncation(args)
    /\ rows # <<>>
    /\ LET S == SetFilters(args)
       IN  /\ Cardinality(S) = 2
           /\ \A f \in S :
                 \A r \in Results(Only(args, {f}), tracks, cue_points) :
                     Len(r) > Len(rows)

\* the free-text condition of C7 on one track
C7_FreeText(t, a) ==
    \E k \in 1..Len(FreeTextCols) :
        LET v == t[FreeTextCols[k]]
        IN  /\ ~IsNull(v)
            /\ IF a.regex THEN RegexSearch(a.query[1], v[1])
               ELSE Contains(v[1], a.query[1])

\* C7: with a query and the free-text regex flag, a track is returned exactly
\* if the query, as a case-insensitive regular expression, is found in one of
\* title, artist, album, filename, genre, remixer, label, comments; with a
\* query and no flag, exactly if one of the eight contains the query as a
\* case-insensitive substring
C7_FreeTextModes ==
    (Searched /\ SetFilters(args) = {"query"} /\ NoTruncation(args)) =>
        RowIds(rows) = {id \in Ids(tracks) : C7_FreeText(tracks[id], args)}

\* the query holds a character that LIKE reads as a wildcard
HasWildcard(v) == \E i \in 1..Len(v[1]) : v[1][i] \in {"%", "_"}

\* C7 restricted to queries without the characters % and _
C7_FreeTextModesNoWildcard ==
    (Searched /\ SetFilters(args) = {"query"} /\ NoTruncation(args)
        /\ ~HasWildcard(args.query)) =>
        RowIds(rows) = {id \in Ids(tracks) : C7_FreeText(tracks[id], args)}

\* the five filters the field-regex flag governs, and their columns
C8_FieldCols ==
    [artist |-> "artist", title |-> "title", filename |-> "filename",
     genre |-> "genre", key |-> "musical_key"]

\* the conditions of C8 on one track; a free-text query is in regex mode
C8_Expected(t, a) ==
    /\ \A f \in DOMAIN C8_FieldCols :
          Given(a[f]) =>
              LET v == t[C8_FieldCols[f]]
              IN  /\ ~IsNull(v)
                  /\ IF a.re THEN RegexSearch(a[f][1], v[1])
                     ELSE Contains(v[1], a[f][1])
    /\ Given(a.source) =>
          (~IsNull(t.source_label) /\ Contains(t.source_label[1], a.source[1]))
    /\ Given(a.format) => t.file_format = a.format
    /\ Given(a.query) => C7_FreeText(t, a)

C8_Domain ==
    /\ Searched
    /\ NoTruncation(args)
    /\ SetFilters(args) \subseteq
          (DOMAIN C8_FieldCols \cup {"source", "format", "query"})
    /\ SetFilters(args) # {"query"}
    /\ Given(args.query) => args.regex

\* C8: the artist, title, filename, genre and key filters are all regular-
\* expression searches when the field-regex flag is set and all substring
\* containment when it is not, whatever the free-text flag is; the source
\* filter is always substring containment and the format filter always
\* exact equality.  (Checked on searches whose free-text query, if any, is
\* in regex mode.)
C8_FieldModes ==
    C8_Domain =>
        RowIds(rows) = {id \in Ids(tracks) : C8_Expected(tracks[id], args)}

\* C8 restricted to filter values without the characters % and _
C8_FieldModesNoWildcard ==
    (C8_Domain /\ \A f \in SetFilters(args) : ~HasWildcard(args[f])) =>
        RowIds(rows) = {id \in Ids(tracks) : C8_Expected(tracks[id], args)}

\* C9: every row returned under a minimum tempo has a tempo, at least the
\* minimum; every row returned under a maximum tempo has a tempo, at most the
\* maximum; with only tempo filters set (a bound of 0 included) the tracks
\* returned are exactly those with a tempo within the bounds that are set
C9_TempoFilters ==
    Searched =>
        /\ ~IsNull(args.bpm_min) =>
              \A i \in 1..Len(rows) :
                  /\ ~IsNull(rows[i].bpm)
                  /\ NumVal(rows[i].bpm) >= NumVal(args.bpm_min)
        /\ ~IsNull(args.bpm_max) =>
              \A i \in 1..Len(rows) :
                  /\ ~IsNull(rows[i].bpm)
                  /\ NumVal(rows[i].bpm) <= NumVal(args.bpm_max)
        /\ (/\ SetFilters(args) # {}
            /\ SetFilters(args) \subseteq {"bpm_min", "bpm_max"}
            /\ NoTruncation(args)) =>
              RowIds(rows) =
                  {id \in Ids(tracks) :
                      /\ ~IsNull(tracks[id].bpm)
                      /\ ~IsNull(args.bpm_min) =>
                            NumVal(tracks[id].bpm) >= NumVal(args.bpm_min)
                      /\ ~IsNull(args.bpm_max) =>
                            NumVal(tracks[id].bpm) <= NumVal(args.bpm_max)}

\* a search with minimum 0 and maximum 125 on a store with a track without
\* tempo, a track above the maximum and a track at the maximum, which alone
\* is returned
C9_Witness ==
    /\ Searched
    /\ SetFilters(args) = {"bpm_min", "bpm_max"}
    /\ NumVal(args.bpm_min) = 0
    /\ NumVal(args.bpm_max) = 125
    /\ \E id \in Ids(tracks) : IsNull(tracks[id].bpm)
    /\ \E id \in Ids(tracks) :
          ~IsNull(tracks[id].bpm) /\ NumVal(tracks[id].bpm) > 125
    /\ Len(rows) = 1
    /\ NumVal(rows[1].bpm) = 125

\* a search with only the minimum 0 on a store with a track without tempo
C9_WitnessZero ==
    /\ Searched
    /\ SetFilters(args) = {"bpm_min"}
    /\ NumVal(args.bpm_min) = 0
    /\ NoTruncation(args)
    /\ \E id \in Ids(tracks) : IsNull(tracks[id].bpm)
    /\ rows # <<>>

C10_Body ==
    /\ Len(rows) <= args.limit
    /\ \E full \in Ordered(args, tracks, cue_points) :
          /\ Len(rows) <= Len(full)
          /\ rows = SubSeq(full, 1, Len(rows))
          /\ Len(rows) < args.limit => rows = full
    /\ \A id \in Matching(args, tracks) \ RowIds(rows) :
          \A i \in 1..Len(rows) : ~OrderBefore(tracks[id], rows[i])

\* C10: a search returns at most `limit` rows, the first `limit` rows of the
\* matching tracks in (artist, title) order: no matching track left out
\* sorts strictly before a returned one
C10_LimitPrefix == Searched => C10_Body

\* C10 restricted to a limit of 0 or more
C10_LimitPrefixNonNegative == (Searched /\ args.limit >= 0) => C10_Body

---------------------------------------------------------------------------
(* Properties of the special queries *)

\* the lowercased file names that more than one track has
C11_SharedNames ==
    {k \in {tracks[i].filename_lower : i \in Ids(tracks)} :
        Cardinality({i \in Ids(tracks) : tracks[i].filename_lower = k}) > 1}

\* the distinct labels of the tracks with one lowercased file name
C11_LabelsOf(k) ==
    {tracks[i].source_label[1] :
        i \in {j \in Ids(tracks) : /\ tracks[j].filename_lower = k
                                   /\ ~IsNull(tracks[j].source_label)}}

\* C11: the duplicates query reports exactly the lowercased file names that
\* more than one track has, one row each, and for each name the distinct
\* labels of its tracks, each label once
C11_DuplicatesDistinctLabels ==
    lastOp.op = "duplicates" =>
        /\ {rows[i].filename_lower : i \in 1..Len(rows)} = C11_SharedNames
        /\ Len(rows) = Cardinality(C11_SharedNames)
        /\ \A i \in 1..Len(rows) :
              LET L == C11_LabelsOf(rows[i].filename_lower)
                  n == Cardinality(L)
              IN  \E f \in [1..n -> L] :
                      /\ \A a, b \in 1..n : a # b => f[a] # f[b]
                      /\ rows[i].sources = Some(GroupConcat(f))

\* C11 without the requirement that a label is listed once: the names are
\* exact, the count is the number of tracks, every label of the group is
\* listed
C11_DuplicatesNames ==
    lastOp.op = "duplicates" =>
        /\ {rows[i].filename_lower : i \in 1..Len(rows)} = C11_SharedNames
        /\ Len(rows) = Cardinality(C11_SharedNames)
        /\ \A i \in 1..Len(rows) :
              rows[i].count =
                  Cardinality({j \in Ids(tracks) :
                      tracks[j].filename_lower = rows[i].filename_lower})



PlaylistSearched == lastOp.op = "search_playlist"

\* the playlists a query selects: substring match, or regex match with the
\* field-regex flag, on the name or on the path
C12_Selected ==
    LET match(v) == IF args.re THEN RegexSearch(args.playlist, v)
                    ELSE Contains(v, args.playlist)
    IN  {playlists[n].playlist_path : n \in
            {k \in 1..Len(playlists) :
                match(playlists[k].playlist_name) \/ match(playlists[k].playlist_path)}}

\* the stored positions of a track in a playlist
C12_Positions(path, id) ==
    {playlists[n].position : n \in
        {k \in 1..Len(playlists) :
            playlists[k].playlist_path = path /\ playlists[k].track_id = id}}

C12_Body ==
    /\ Len(rows) = Cardinality(C12_Selected)
    /\ {rows[i].playlist_path : i \in 1..Len(rows)} = C12_Selected
    /\ \A i \in 1..Len(rows) :
         LET r == rows[i].rows
             path == rows[i].playlist_path
         IN  /\ RowIds(r) = {id \in Ids(tracks) : C12_Positions(path, id) # {}}
             /\ \A j \in 1..Len(r) : r[j].position \in C12_Positions(path, r[j].id)
             /\ \A j, k \in 1..Len(r) : j < k => r[j].position <= r[k].position

\* C12: a playlist-scoped search that truncates nothing shows one section for
\* every playlist whose name or path matches the query (substring, or regex
\* with the field-regex flag), and each section lists that playlist's member
\* tracks in ascending stored position
C12_PlaylistSections ==
    (PlaylistSearched /\ NoTruncation(args)) => C12_Body

\* C12 restricted to queries without the characters % and _
C12_PlaylistSectionsNoWildcard ==
    (PlaylistSearched /\ NoTruncation(args) /\ ~HasWildcard(Some(args.playlist))) =>
        C12_Body

(* export_results.py: conversion of a path between the two conventions *)

UpperChar(c) ==
    IF \E i \in 1..Len(LowerLetters) : LowerLetters[i] = c
    THEN Letters[CHOOSE i \in 1..Len(LowerLetters) : LowerLetters[i] = c]
    ELSE c

\* str.upper()
Upper(s) == [i \in 1..Len(s) |-> UpperChar(s[i])]

\* str.startswith(prefix)
StartsWith(s, prefix) ==
    Len(s) >= Len(prefix) /\ SubSeq(s, 1, Len(prefix)) = prefix

\* sub in s
HasSub(s, sub) ==
    \E i \in 0..(Len(s) - Len(sub)) : SubSeq(s, i + 1, i + Len(sub)) = sub

\* str.split(sep) for a separator of one character
RECURSIVE Split(_, _)
Split(s, sep) ==
    IF Positions(s, sep) = {} THEN <<s>>
    ELSE LET i == MinOf(Positions(s, sep))
         IN  <<SubSeq(s, 1, i - 1)>> \o Split(SubSeq(s, i + 1, Len(s)), sep)

\* sep.join(parts)
RECURSIVE Join(_, _)
Join(parts, sep) ==
    IF parts = <<>> THEN <<>>
    ELSE IF Len(parts) = 1 THEN parts[1]
    ELSE parts[1] \o <<sep>> \o Join(Tail(parts), sep)

\* str.replace(old, new) for single characters
Replace(s, old, new) == [i \in 1..Len(s) |-> IF s[i] = old THEN new ELSE s[i]]

Volumes_ == <<"/", "V", "o", "l", "u", "m", "e", "s", "/">>
Volume == <<"V", "o", "l", "u", "m", "e">>
mac == <<"m", "a", "c">>
windows == <<"w", "i", "n", "d", "o", "w", "s">>

\* a volume mapping is None, or a dict: the sequence of its (volume, drive)
\* items in insertion order.  `if volume_mappings` is false for None and {}
HasMappings(vm) == ~IsNull(vm) /\ vm[1] # <<>>

MappingKeys(vm) == {vm[1][i][1] : i \in 1..Len(vm[1])}

MappingGet(vm, volume_name) ==
    vm[1][CHOOSE i \in 1..Len(vm[1]) : vm[1][i][1] = volume_name][2]

\* _mac_to_windows joining the components with the slash it split them at
_mac_to_windows_KeepSlashes(mac_path, vm) ==
    IF ~StartsWith(mac_path, Volumes_) THEN mac_path
    ELSE LET parts == Split(mac_path, "/")
         IN  IF Len(parts) < 3 THEN mac_path
             ELSE LET volume_name == parts[3]
                      drive == IF HasMappings(vm) /\ volume_name \in MappingKeys(vm)
                               THEN MappingGet(vm, volume_name)
                               ELSE IF volume_name # <<>>
                                    THEN Upper(<<volume_name[1]>>)
                                    ELSE <<"X">>
                      remaining_path ==
                          IF Len(parts) > 3
                          THEN Join(SubSeq(parts, 4, Len(parts)), "/")
                          ELSE <<>>
                  IN  IF remaining_path # <<>>
                      THEN drive \o <<":", "\\">> \o remaining_path
                      ELSE drive \o <<":", "\\">>

_mac_to_windows(mac_path, vm) ==
    IF ~StartsWith(mac_path, Volumes_) THEN mac_path
    ELSE LET parts == Split(mac_path, "/")
         IN  IF Len(parts) < 3 THEN mac_path
             ELSE LET volume_name == parts[3]
                      drive == IF HasMappings(vm) /\ volume_name \in MappingKeys(vm)
                               THEN MappingGet(vm, volume_name)
                               ELSE IF volume_name # <<>>
                                    THEN Upper(<<volume_name[1]>>)
                                    ELSE <<"X">>
                      remaining_path ==
                          IF Len(parts) > 3
                          THEN Join(SubSeq(parts, 4, Len(parts)), "\\")
                          ELSE <<>>
                  IN  IF remaining_path # <<>>
                      THEN drive \o <<":", "\\">> \o remaining_path
                      ELSE drive \o <<":", "\\">>

_windows_to_mac(windows_path, vm) ==
    IF ~HasSub(windows_path, <<":", "\\">>) THEN windows_path
    ELSE LET drive_letter == Upper(<<windows_path[1]>>)
             hits == IF HasMappings(vm)
                     THEN {i \in 1..Len(vm[1]) : Upper(vm[1][i][2]) = drive_letter}
                     ELSE {}
             found == IF hits # {} THEN vm[1][MinOf(hits)][1] ELSE <<>>
             volume_name == IF found = <<>> THEN Volume \o drive_letter ELSE found
             remaining_path ==
                 IF Len(windows_path) > 3
                 THEN Replace(SubSeq(windows_path, 4, Len(windows_path)), "\\", "/")
                 ELSE <<>>
         IN  IF remaining_path # <<>>
             THEN Volumes_ \o volume_name \o <<"/">> \o remaining_path
             ELSE Volumes_ \o volume_name

_convert_path(filepath, from_platform, to_platform, vm) ==
    IF ~NonEmpty(filepath) \/ ~NonEmpty(from_platform) \/ ~NonEmpty(to_platform)
    THEN filepath
    ELSE IF from_platform = to_platform THEN filepath
    ELSE LET f == Lower(from_platform[1])
             t == Lower(to_platform[1])
         IN  IF f = mac /\ t = windows
             THEN Some(_mac_to_windows(filepath[1], vm))
             ELSE IF f = windows /\ t = mac
             THEN Some(_windows_to_mac(filepath[1], vm))
             ELSE filepath

\* the values converted: absent, empty, and paths of both conventions
ConvPaths ==
    {NULL, EmptyText,
     Some(<<"/", "V", "o", "l", "u", "m", "e", "s", "/", "U", "1", "/", "a", "/", "b", ".", "m">>),
     Some(<<"/", "V", "o", "l", "u", "m", "e", "s", "/", "U", "1">>),
     Some(<<"/", "V", "o", "l", "u", "m", "e", "s", "/", "U", "1", "/">>),
     Some(<<"/", "V", "o", "l", "u", "m", "e", "s", "/", "U", "1", "/", "a", "/">>),
     Some(<<"/", "V", "o", "l", "u", "m", "e", "s", "/", "d", "2", "/", "x">>),
     Some(<<"/", "V", "o", "l", "u", "m", "e", "s", "/", "U", "1", "/", "a", "\\", "b">>),
     Some(<<"/", "V", "o", "l", "u", "m", "e", "s", "/", "/", "x">>),
     Some(<<"/", "V", "o", "l", "u", "m", "e", "s", "/">>),
     Some(<<"/", "a", "/", "x", ".", "m">>),
     Some(<<"V", "o", "l", "u", "m", "e", "s", "/", "U", "1", "/", "a">>),
     Some(<<"E", ":", "\\", "a", "\\", "b", ".", "m">>),
     Some(<<"e", ":", "\\", "a">>),
     Some(<<"E", ":", "\\">>),
     Some(<<"E", ":">>),
     Some(<<"E", ":", "/", "a">>),
     Some(<<"a", "b", ":", "\\", "x">>),
     Some(<<"F", ":", "\\", "a", "/", "b">>)}

\* the convention labels: absent, the two conventions, and one in capitals
Platforms == {NULL, Some(mac), Some(windows), Some(<<"M", "a", "c">>)}

U1 == <<"U", "1">>
D2 == <<"d", "2">>

\* the volume mappings: none, empty, and dicts of one or two volumes
Mappings ==
    {NULL, Some(<<>>),
     Some(<< <<U1, <<"E">>>> >>),
     Some(<< <<U1, <<"e">>>> >>),
     Some(<< <<D2, <<"F">>>> >>),
     Some(<< <<U1, <<"E">>>>, <<D2, <<"F">>>> >>),
     Some(<< <<D2, <<"E">>>>, <<U1, <<"e">>>> >>)}

\* a conversion of the value given, or of the result of the last conversion
ConvertPath(from_platform, to_platform) ==
    /\ pc = "convert"
    /\ Len(converted) < MaxConversions
    /\ LET value == IF converted = <<>> THEN conv_path
                    ELSE converted[Len(converted)].result
       IN  converted' = Append(converted,
               [value |-> value, from_platform |-> from_platform,
                to_platform |-> to_platform,
                result |-> _convert_path(value, from_platform, to_platform,
                                         volume_mappings)])
    /\ lastOp' = Op("convert", Len(converted) + 1)
    /\ UNCHANGED <<storeVars, pc, scanVars, importVars, histVars, searchVars,
                   exportVars, volume_mappings, conv_path, committed>>

ConvertInit ==
    /\ tracks = <<>>
    /\ cue_points = <<>>
    /\ playlists = <<>>
    /\ pc = "convert"
    /\ scan_files = <<>>
    /\ scan_label = <<>>
    /\ xml = "none"
    /\ idx = 0
    /\ existing_tracks = <<>>
    /\ already_imported = {}
    /\ imported_count = 0
    /\ skipped_count = 0
    /\ already_done_count = 0
    /\ prevRun = NoRun
    /\ lastOp = Op("none", 0)
    /\ ops = 0
    /\ scan0 = [count |-> 0, indexed |-> FALSE, directory |-> <<>>]
    /\ count = 0
    /\ import0 = <<>>
    /\ committed = Store(tracks, cue_points, playlists)
    /\ args = NoArgs
    /\ rows = <<>>
    /\ column_names = <<>>
    /\ csv_file = NULL
    /\ printed = <<>>
    /\ volume_mappings \in Mappings
    /\ conv_path \in ConvPaths
    /\ converted = <<>>

ConvertNext ==
    \E from_platform \in Platforms, to_platform \in Platforms :
        ConvertPath(from_platform, to_platform)

SpecConvert == ConvertInit /\ [][ConvertNext]_vars

(* query.py and export_results.py: the ad-hoc query and the CSV export *)

Whitespace == {" ", "\n", "\t"}

RECURSIVE LStrip(_)
LStrip(s) == IF s # <<>> /\ s[1] \in Whitespace THEN LStrip(Tail(s)) ELSE s

RECURSIVE RStrip(_)
RStrip(s) ==
    IF s # <<>> /\ s[Len(s)] \in Whitespace THEN RStrip(SubSeq(s, 1, Len(s) - 1))
    ELSE s

\* str.strip()
Strip(s) == RStrip(LStrip(s))

SELECT == <<"S", "E", "L", "E", "C", "T">>

\* the statements given to the engine
select_tracks ==
    <<"S", "E", "L", "E", "C", "T", " ", "i", "d", ",", "f", "i", "l", "e", "p", "a",
      "t", "h", ",", "t", "i", "t", "l", "e", " ", "F", "R", "O", "M", " ", "t", "r",
      "a", "c", "k", "s", " ", "O", "R", "D", "E", "R", " ", "B", "Y", " ", "i", "d">>

select_none ==
    <<"s", "e", "l", "e", "c", "t", " ", "i", "d", " ", "f", "r", "o", "m", " ", "t",
      "r", "a", "c", "k", "s", " ", "w", "h", "e", "r", "e", " ", "0">>

delete_tracks ==
    <<"D", "E", "L", "E", "T", "E", " ", "F", "R", "O", "M", " ", "t", "r", "a", "c",
      "k", "s">>

update_titles ==
    <<"U", "p", "d", "a", "t", "e", " ", "t", "r", "a", "c", "k", "s", " ", "S", "E",
      "T", " ", "t", "i", "t", "l", "e", "=", "N", "U", "L", "L">>

two_statements ==
    <<"S", "E", "L", "E", "C", "T", " ", "1", ";", "D", "E", "L", "E", "T", "E", " ",
      "F", "R", "O", "M", " ", "t", "r", "a", "c", "k", "s">>

not_a_statement ==
    <<"S", "E", "L", "E", "C", "T", "E", "D">>


\* the SQL texts of the queries: the statements, with white space around some
SqlTexts ==
    {select_tracks,
     <<" ", "\n">> \o select_none \o <<"\n">>,
     delete_tracks,
     <<"\n", " ">> \o update_titles,
     two_statements,
     not_a_statement,
     <<" ">>}

\* sqlite3: cursor.execute(sql) on the table tracks t, then fetchall() and
\* cursor.description.  A text with two statements, and one that is not a
\* statement, raise sqlite3.Error before anything runs; a DELETE or an UPDATE
\* changes the table and has no description
sqlite3_execute(sql, t) ==
    IF sql = select_tracks
    THEN [error |-> FALSE, tracks |-> t,
          description |-> Some(<<"id", "filepath", "title">>),
          rows |-> [i \in 1..Len(t) |-> <<Num(i), t[i].filepath, t[i].title>>]]
    ELSE IF sql = select_none
    THEN [error |-> FALSE, tracks |-> t, description |-> Some(<<"id">>),
          rows |-> <<>>]
    ELSE IF sql = delete_tracks
    THEN [error |-> FALSE, tracks |-> <<>>, description |-> NULL, rows |-> <<>>]
    ELSE IF sql = update_titles
    THEN [error |-> FALSE, tracks |-> [i \in 1..Len(t) |-> [t[i] EXCEPT !.title = NULL]],
          description |-> NULL, rows |-> <<>>]
    ELSE [error |-> TRUE, tracks |-> t, description |-> NULL, rows |-> <<>>]

\* lines 24-25: the test run_query makes on the stripped text
IsSelect_Always(sql_stripped) == TRUE
IsSelect(sql_stripped) == StartsWith(Upper(sql_stripped), SELECT)

\* the columns that hold integers
IntColumns == {"id"}

\* csv.writer: the text of one cell (None is written as the empty text, a
\* text that holds a comma, a quote or a line end is quoted)
CsvCell(name, v) ==
    IF IsNull(v) THEN <<>>
    ELSE IF name \in IntColumns THEN Str(NumVal(v))
    ELSE IF \E i \in 1..Len(v[1]) : v[1][i] \in {",", "\"", "\n", "\r"}
    THEN <<"\"">> \o v[1] \o <<"\"">>
    ELSE v[1]

\* list.index(x)
IndexOf(list, x) == MinOf({i \in 1..Len(list) : list[i] = x})

InList(list, x) == \E i \in 1..Len(list) : list[i] = x

\* line 28: the test for no rows
NoRows_Never(r) == FALSE
NoRows(r) == r = <<>>

\* lines 37-44: the requested columns that are column names, in the order
\* requested
ExportCols_SchemaOrder(selected_columns, names) ==
    SelectSeq(names, LAMBDA col : InList(selected_columns, col))
ExportCols(selected_columns, names) ==
    SelectSeq(selected_columns, LAMBDA col : InList(names, col))

PathColumns == {"filepath", "path", "file_path"}

\* export_to_csv: the file at the output path and the messages afterwards.
\* The output path is taken to be writable
export_to_csv(r, names, file, selected_columns, path_conversion, vm) ==
    IF NoRows(r) THEN [file |-> file, printed |-> << <<"No results to export", "">> >>]
    ELSE LET export_cols == IF IsNull(selected_columns) THEN names
                            ELSE ExportCols(selected_columns[1], names)
             col_indices == [k \in 1..Len(export_cols) |-> IndexOf(names, export_cols[k])]
             unknown == IF IsNull(selected_columns) THEN <<>>
                        ELSE SelectSeq(selected_columns[1],
                                       LAMBDA col : ~InList(names, col))
             warnings == [k \in 1..Len(unknown) |-> <<"Warning: Column not found", unknown[k]>>]
             cell(row, k) ==
                 LET index == col_indices[k]
                     name == export_cols[IndexOf(col_indices, index)]
                     value == IF ~IsNull(path_conversion) /\ name \in PathColumns
                              THEN _convert_path(row[index], path_conversion[1].from_platform,
                                                 path_conversion[1].to_platform, vm)
                              ELSE row[index]
                 IN  CsvCell(names[index], value)
         IN  IF col_indices = <<>>
             THEN [file |-> file,
                   printed |-> warnings \o << <<"Error: No valid columns selected", "">> >>]
             ELSE [file |-> Some([header |-> export_cols,
                                  lines |-> [n \in 1..Len(r) |->
                                               [k \in 1..Len(col_indices) |-> cell(r[n], k)]]]),
                   printed |-> warnings \o << <<"Exported", "">> >>]

\* dict[key] = value
RECURSIVE DictSet(_, _, _)
DictSet(d, key, value) ==
    IF d = <<>> THEN << <<key, value>> >>
    ELSE IF d[1][1] = key THEN << <<key, value>> >> \o Tail(d)
    ELSE <<d[1]>> \o DictSet(Tail(d), key, value)

\* _export_query_results, lines 124-130: the dict of --volume-map
RECURSIVE ParseVolumeMap(_, _)
ParseVolumeMap(volume_map, d) ==
    IF volume_map = <<>> THEN d
    ELSE LET mapping == volume_map[1]
             eq == Positions(mapping, "=")
         IN  ParseVolumeMap(Tail(volume_map),
                 IF eq = {} THEN d
                 ELSE DictSet(d, Strip(SubSeq(mapping, 1, MinOf(eq) - 1)),
                              Strip(SubSeq(mapping, MinOf(eq) + 1, Len(mapping)))))

\* _export_query_results, lines 133-138
ParsePathConversion(path_conversion) ==
    IF path_conversion = "mac-to-windows"
    THEN Some([from_platform |-> Some(mac), to_platform |-> Some(windows)])
    ELSE IF path_conversion = "windows-to-mac"
    THEN Some([from_platform |-> Some(windows), to_platform |-> Some(mac)])
    ELSE NULL

_export_query_results(r, names, file, a) ==
    export_to_csv(r, names, file, a.columns,
                  ParsePathConversion(a.path_conversion),
                  IF a.volume_map # <<>> THEN Some(ParseVolumeMap(a.volume_map, <<>>))
                  ELSE NULL)

\* --columns: none, or a list of names
ColumnLists ==
    {NULL, Some(<<"filepath">>), Some(<<"title", "id">>), Some(<<"nope">>),
     Some(<<"nope", "id", "Title", "id">>)}

\* --path-conversion and --volume-map: neither, one direction with a mapping,
\* the other direction without
Conversions ==
    {[path_conversion |-> "", volume_map |-> <<>>],
     [path_conversion |-> "mac-to-windows",
      volume_map |-> << <<"U", "1", " ", "=", "E">> >>],
     [path_conversion |-> "windows-to-mac", volume_map |-> <<>>]}

\* the arguments of the query command: without --export-csv, and with it
QueryArgs ==
    {[sql |-> s, export_csv |-> FALSE, columns |-> NULL, path_conversion |-> "",
      volume_map |-> <<>>] : s \in SqlTexts}
    \cup
    {[sql |-> s, export_csv |-> TRUE, columns |-> c,
      path_conversion |-> v.path_conversion, volume_map |-> v.volume_map] :
        s \in SqlTexts, c \in ColumnLists, v \in Conversions}

\* run_query
RunQuery ==
    /\ pc = "query"
    /\ ops < MaxQueries
    /\ \E a \in QueryArgs :
         LET sql_stripped == Strip(a.sql)
             r == sqlite3_execute(sql_stripped, tracks)
             e == _export_query_results(r.rows, r.description[1], csv_file, a)
         IN  /\ args' = a
             /\ IF ~IsSelect(sql_stripped)
                THEN /\ printed' = << <<"ValueError", "">> >>
                     /\ rows' = <<>>
                     /\ column_names' = <<>>
                     /\ UNCHANGED <<tracks, csv_file>>
                ELSE /\ tracks' = r.tracks
                     /\ IF r.error \/ IsNull(r.description)
                        THEN /\ printed' = IF r.error THEN << <<"SQL Error", "">> >>
                                           ELSE << <<"No results returned", "">> >>
                             /\ rows' = <<>>
                             /\ column_names' = <<>>
                             /\ UNCHANGED csv_file
                        ELSE /\ rows' = r.rows
                             /\ column_names' = r.description[1]
                             /\ IF a.export_csv
                                THEN /\ csv_file' = e.file
                                     /\ printed' = << <<"rows", "">> >> \o e.printed
                                ELSE /\ printed' = << <<"rows", "">> >>
                                     /\ UNCHANGED csv_file
    /\ ops' = ops + 1
    /\ lastOp' = Op("query", ops + 1)
    /\ UNCHANGED <<cue_points, playlists, pc, scanVars, importVars, prevRun,
                   scan0, import0, convVars, committed>>

\* the tracks of the database that is queried
QueryTracks ==
    << [SearchTracks[1] EXCEPT
          !.filepath = Some(Volumes_ \o U1 \o <<"/", "a", ".", "m">>)],
       SearchTracks[4] >>

QueryInit ==
    /\ tracks \in {<<>>, <<QueryTracks[1]>>, <<QueryTracks[2]>>, QueryTracks}
    /\ cue_points = <<>>
    /\ playlists = <<>>
    /\ pc = "query"
    /\ scan_files = <<>>
    /\ scan_label = <<>>
    /\ xml = "none"
    /\ idx = 0
    /\ existing_tracks = <<>>
    /\ already_imported = {}
    /\ imported_count = 0
    /\ skipped_count = 0
    /\ already_done_count = 0
    /\ prevRun = NoRun
    /\ lastOp = Op("none", 0)
    /\ ops = 0
    /\ scan0 = [count |-> 0, indexed |-> FALSE, directory |-> <<>>]
    /\ count = 0
    /\ import0 = <<>>
    /\ committed = Store(tracks, cue_points, playlists)
    /\ args = NoArgs
    /\ rows = <<>>
    /\ column_names = <<>>
    /\ csv_file = NULL
    /\ printed = <<>>
    /\ volume_mappings = NULL
    /\ conv_path = NULL
    /\ converted = <<>>

QueryNext == RunQuery

SpecQuery == QueryInit /\ [][QueryNext]_vars

(* Properties of the failing scans and imports, under Spec *)

C20_Step ==
    /\ lastOp'.op \in {"scan_error", "import_error"} =>
          /\ tracks' = tracks
          /\ cue_points' = cue_points
          /\ playlists' = playlists
          /\ pc' = "idle"
          /\ printed'[1][1] \in {"FileNotFoundError", "NotADirectoryError", "ValueError"}
    /\ (ops' # ops /\ scan0' # scan0 /\ ~(Exists(scan0'.directory) /\ IsDir(scan0'.directory))) =>
          lastOp'.op = "scan_error"
    /\ lastOp'.op = "import_start" => xml' \in CatalogNames

\* C20: a scan of a path that does not exist or is not a directory, and an
\* import of a file that does not exist or cannot be parsed, end in an error
\* and leave tracks, cue points and playlists as they were; no scan and no
\* import is started on such a path
C20_FailBeforeWrite == [][C20_Step]_vars

\* an import of a file that cannot be parsed failed on a store that has
\* tracks and playlists
C20_Witness ==
    /\ lastOp.op = "import_error"
    /\ printed = << <<"ValueError", "">> >>
    /\ tracks # <<>>
    /\ playlists # <<>>

\* a scan of a path that is a file failed on a store that has tracks
C20_WitnessScan ==
    /\ lastOp.op = "scan_error"
    /\ printed = << <<"NotADirectoryError", "">> >>
    /\ tracks # <<>>

(* Properties of the ad-hoc query and of the CSV export *)

\* the step ran a query that returned rows, and called export_to_csv on them
Exported == args'.export_csv /\ printed'[1][1] = "rows"

HasMessage(p, kind) == \E i \in 1..Len(p) : p[i][1] = kind

C13_Step ==
    /\ (Exported /\ rows' = <<>>) =>
          /\ csv_file' = csv_file
          /\ HasMessage(printed', "No results to export")
    /\ ~IsNull(csv_file') => csv_file'[1].lines # <<>>

\* C13: an export of zero rows leaves the output path as it was, no file
\* created and a file already there untouched, and reports that there is
\* nothing to export; no file without a data line is ever written
C13_ZeroRowsNoFile == [][C13_Step]_vars

\* a query without rows was exported to a path where an earlier export had
\* written a file
C13_Witness ==
    /\ lastOp.op = "query"
    /\ args.export_csv
    /\ printed[1][1] = "rows"
    /\ rows = <<>>
    /\ ~IsNull(csv_file)

\* the warnings printed, in order
C14_Warned(p) ==
    LET w == SelectSeq(p, LAMBDA m : m[1] = "Warning: Column not found")
    IN  [i \in 1..Len(w) |-> w[i][2]]

C14_Written(file, cols) ==
    /\ ~IsNull(file)
    /\ file[1].header = cols
    /\ Len(file[1].lines) = Len(rows')
    /\ \A n \in 1..Len(rows') :
         /\ Len(file[1].lines[n]) = Len(cols)
         /\ \A k \in 1..Len(cols) :
              cols[k] \notin PathColumns =>
                 \E i \in 1..Len(column_names') :
                    /\ column_names'[i] = cols[k]
                    /\ file[1].lines[n][k] = CsvCell(cols[k], rows'[n][i])

C14_Step ==
    (Exported /\ rows' # <<>>) =>
        IF IsNull(args'.columns)
        THEN /\ C14_Written(csv_file', column_names')
             /\ C14_Warned(printed') = <<>>
        ELSE LET requested == args'.columns[1]
                 known(col) == \E i \in 1..Len(column_names') : column_names'[i] = col
                 valid == SelectSeq(requested, known)
             IN  /\ C14_Warned(printed') = SelectSeq(requested, LAMBDA col : ~known(col))
                 /\ IF valid = <<>> THEN csv_file' = csv_file
                    ELSE C14_Written(csv_file', valid)

\* C14: with a column list the export writes the requested columns that are
\* among the available ones, in the order requested, and warns once for each
\* unknown name; it writes nothing if no requested name is known.  Without a
\* list it writes every available column in the original order
C14_ColumnProjection == [][C14_Step]_vars

\* a list with an unknown name, a name in another case and a name given twice
\* was exported
C14_Witness ==
    /\ lastOp.op = "query"
    /\ args.export_csv
    /\ rows # <<>>
    /\ args.columns = Some(<<"nope", "id", "Title", "id">>)
    /\ ~IsNull(csv_file)
    /\ csv_file[1].header = <<"id", "id">>
    /\ C14_Warned(printed) = <<"nope", "Title">>

\* the first keyword of a text: its leading letters after the white space
RECURSIVE LeadingLetters(_)
LeadingLetters(s) ==
    IF s # <<>> /\ \E i \in 1..Len(Letters) : s[1] \in {Letters[i], LowerLetters[i]}
    THEN <<s[1]>> \o LeadingLetters(Tail(s))
    ELSE <<>>

FirstKeyword(sql) == Upper(LeadingLetters(LStrip(sql)))

C19_Step ==
    /\ FirstKeyword(args'.sql) # SELECT =>
          /\ printed'[1][1] \in {"ValueError", "SQL Error"}
          /\ rows' = <<>>
    /\ ~StartsWith(Upper(LStrip(args'.sql)), SELECT) => printed'[1][1] = "ValueError"
    /\ tracks' = tracks
    /\ cue_points' = cue_points
    /\ playlists' = playlists

AtoB == {n \in 1..Len(converted) :
            /\ NonEmpty(converted[n].from_platform)
            /\ NonEmpty(converted[n].to_platform)
            /\ Lower(converted[n].from_platform[1]) = mac
            /\ Lower(converted[n].to_platform[1]) = windows}

BtoA == {n \in 1..Len(converted) :
            /\ NonEmpty(converted[n].from_platform)
            /\ NonEmpty(converted[n].to_platform)
            /\ Lower(converted[n].from_platform[1]) = windows
            /\ Lower(converted[n].to_platform[1]) = mac}

\* /Volumes/<volume>/<rest>: the text up to the first slash after the root
\* marker, and the text after that slash
StyleA(v) == NonEmpty(v) /\ StartsWith(v[1], Volumes_)

AfterRoot(v) == SubSeq(v[1], Len(Volumes_) + 1, Len(v[1]))

VolumeOf(v) ==
    IF Positions(AfterRoot(v), "/") = {} THEN AfterRoot(v)
    ELSE SubSeq(AfterRoot(v), 1, MinOf(Positions(AfterRoot(v), "/")) - 1)

RestOf(v) ==
    IF Positions(AfterRoot(v), "/") = {} THEN <<>>
    ELSE SubSeq(AfterRoot(v), MinOf(Positions(AfterRoot(v), "/")) + 1,
                Len(AfterRoot(v)))

Covers(vm, volume) == HasMappings(vm) /\ volume \in MappingKeys(vm)

C15_Letter(v) ==
    IF Covers(volume_mappings, VolumeOf(v))
    THEN MappingGet(volume_mappings, VolumeOf(v))
    ELSE <<UpperChar(VolumeOf(v)[1])>>

\* C15: a style-A path /Volumes/<volume>/<rest> (the volume name not empty) is
\* converted to <L>:\<rest> with every slash of <rest> turned into a backslash,
\* L being the mapping's letter for the volume, or else the upper-cased first
\* character of the volume; with nothing after the volume the result is <L>:\
C15_MacToWindows ==
    \A n \in AtoB :
        LET v == converted[n].value
        IN  (StyleA(v) /\ VolumeOf(v) # <<>>) =>
                converted[n].result =
                    Some(C15_Letter(v) \o <<":", "\\">> \o Replace(RestOf(v), "/", "\\"))

\* a path with directories below a volume that the mapping has was converted
C15_Witness ==
    \E n \in AtoB :
        LET v == converted[n].value
        IN  /\ StyleA(v)
            /\ Covers(volume_mappings, VolumeOf(v))
            /\ Positions(RestOf(v), "/") # {}
            /\ converted[n].result # v

\* a path that is only a volume the mapping does not have was converted
C15_WitnessFallback ==
    \E n \in AtoB :
        LET v == converted[n].value
        IN  /\ StyleA(v)
            /\ VolumeOf(v) # <<>>
            /\ ~Covers(volume_mappings, VolumeOf(v))
            /\ RestOf(v) = <<>>
            /\ converted[n].result = Some(<<UpperChar(VolumeOf(v)[1]), ":", "\\">>)

\* the value begins with a drive letter, a colon and a backslash
HasDrivePrefix(v) ==
    /\ NonEmpty(v)
    /\ Len(v[1]) >= 3
    /\ \E i \in 1..Len(Letters) : v[1][1] \in {Letters[i], LowerLetters[i]}
    /\ v[1][2] = ":"
    /\ v[1][3] = "\\"

\* the style-A paths the claim allows for a style-B value with the prefix
C16_Expected(v) ==
    LET letter == v[1][1]
        hits == IF HasMappings(volume_mappings)
                THEN {i \in 1..Len(volume_mappings[1]) :
                        Upper(volume_mappings[1][i][2]) = Upper(<<letter>>)}
                ELSE {}
        names == IF hits # {} THEN {volume_mappings[1][MinOf(hits)][1]}
                 ELSE {Volume \o <<letter>>, Volume \o Upper(<<letter>>)}
        rest == Replace(SubSeq(v[1], 4, Len(v[1])), "\\", "/")
    IN  {Some(Volumes_ \o name \o tail) :
            name \in names,
            tail \in IF rest = <<>> THEN {<<>>, <<"/">>} ELSE {<<"/">> \o rest}}

C16_Body(n) ==
    LET v == converted[n].value
    IN  IF HasDrivePrefix(v) THEN converted[n].result \in C16_Expected(v)
        ELSE converted[n].result = v

\* C16: a value is converted from style B to style A only if it begins with a
\* drive letter, a colon and a backslash; the volume is that of the first
\* mapping entry whose letter is the drive letter ignoring case, or else a
\* placeholder name holding the letter, and the remainder has every backslash
\* turned into a slash
C16_WindowsToMac ==
    \A n \in BtoA : C16_Body(n)

\* C16 for the values that begin with the drive prefix or hold no
\* colon-backslash pair at all
C16_WindowsToMacPrefixOnly ==
    \A n \in BtoA :
        LET v == converted[n].value
        IN  (HasDrivePrefix(v) \/ ~NonEmpty(v) \/ ~HasSub(v[1], <<":", "\\">>)) =>
                C16_Body(n)

\* the cases in which the conversion is to return the value as it is
C17_NoOp(e) ==
    \/ ~NonEmpty(e.value)
    \/ ~NonEmpty(e.from_platform)
    \/ ~NonEmpty(e.to_platform)
    \/ e.from_platform = e.to_platform
    \/ Lower(e.from_platform[1]) = mac /\ ~StyleA(e.value)
    \/ Lower(e.from_platform[1]) = windows /\ ~HasDrivePrefix(e.value)

\* C17: the conversion returns the value unchanged when the value is empty or
\* absent, a convention label is absent, the labels are equal, or the value
\* does not begin with the prefix of the source convention
C17_Unchanged ==
    \A n \in 1..Len(converted) :
        C17_NoOp(converted[n]) => converted[n].result = converted[n].value

\* C17 with "holds no colon-backslash pair" in place of "does not begin with
\* the drive prefix"
C17_UnchangedNoColonBackslash ==
    \A n \in 1..Len(converted) :
        LET e == converted[n]
        IN  (C17_NoOp(e) /\ (NonEmpty(e.value) => ~HasSub(e.value[1], <<":", "\\">>)))
                => e.result = e.value

\* no two volumes of the mapping have the same letter, ignoring case
Bijective(vm) ==
    \A i, j \in 1..Len(vm[1]) :
        i # j => Upper(vm[1][i][2]) # Upper(vm[1][j][2])

\* a style-A path was converted to style B and the result back to style A,
\* with a bijective mapping that has the path's volume
C18_RoundTrip(n) ==
    /\ n \in AtoB
    /\ n + 1 \in BtoA
    /\ StyleA(converted[n].value)
    /\ Covers(volume_mappings, VolumeOf(converted[n].value))
    /\ Bijective(volume_mappings)

\* C18: converting a style-A path to style B and back, with a bijective
\* mapping that has the path's volume, returns the original path
C18_RoundTripIdentity ==
    \A n \in 1..Len(converted) :
        C18_RoundTrip(n) => converted[n + 1].result = converted[n].value

\* C18 for the paths without a backslash that are not just the volume followed
\* by a slash
C18_RoundTripIdentityPlain ==
    \A n \in 1..Len(converted) :
        LET v == converted[n].value
        IN  (C18_RoundTrip(n) /\ Positions(v[1], "\\") = {}
                /\ ~(RestOf(v) = <<>> /\ v[1][Len(v[1])] = "/"))
                => converted[n + 1].result = v

---------------------------------------------------------------------------
(* Properties of the failing records, the counters and the commits, under   *)
(* Spec and SpecAbort                                                       *)

\* the number of warnings in the output
Warnings(p) ==
    Cardinality({i \in 1..Len(p) : p[i][1] \in {"WARN Skipped unreadable file",
                                                "WARN Database error",
                                                "WARN Error importing track"}})

\* the output reports a skipped count that covers the warnings
ReportsSkipped(p) ==
    \E i \in 1..Len(p), n \in 0..Len(p) :
        /\ p[i] = <<"Tracks skipped", Str(n)>>
        /\ n >= Warnings(p)

\* a record of a scan fails: it is logged and not written, the walk goes on
C21_ScanRecord ==
    lastOp'.op \in {"scan_unreadable", "scan_db_error"} =>
        /\ printed' = Append(printed, <<IF lastOp'.op = "scan_unreadable"
                                        THEN "WARN Skipped unreadable file"
                                        ELSE "WARN Database error",
                                        Head(scan_files)>>)
        /\ tracks' = tracks /\ count' = count
        /\ pc' = "scan" /\ scan_files' = Tail(scan_files)

\* the catalog track the loop is at raises: track.get does, or chr() does for
\* one of its marks
C21_Raises ==
    /\ pc = "import"
    /\ lastOp'.op \in {"import_track_error", "import_update", "import_insert",
                       "import_conflict"}
    /\ LET track == Catalog(xml).tracks[idx]
       IN  \/ track.AverageBpm = Unconvertible
           \/ \E k \in 1..Len(track.marks) : MarkRaises(track.marks[k])

\* a record of an import fails: it is logged with its index and counted as
\* skipped, the loop goes on
C21_ImportRecord ==
    C21_Raises =>
        /\ printed' = Append(printed, <<"WARN Error importing track", Str(idx - 1)>>)
        /\ skipped_count' = skipped_count + 1
        /\ idx' = idx + 1

\* an operation that got through its records went through all of them
C21_AllProcessed ==
    /\ lastOp'.op = "scan_done" => scan_files = <<>>
    /\ lastOp'.op = "import_done" => idx = num_tracks(xml) + 1

\* C21: when a record of a scan or of an import fails, the failure is logged
\* for that record, the record is skipped, the remaining records are still
\* processed, and the operation ends by reporting a skipped count that
\* includes the failed record.
C21_FailuresReported ==
    [][/\ C21_ScanRecord
       /\ C21_ImportRecord
       /\ C21_AllProcessed
       /\ (lastOp'.op \in {"scan_done", "import_done"} /\ Warnings(printed') > 0)
             => ReportsSkipped(printed')]_vars

\* the same without the report of the scan, which prints the indexed count only
C21_FailuresReportedImport ==
    [][/\ C21_ScanRecord
       /\ C21_ImportRecord
       /\ C21_AllProcessed
       /\ (lastOp'.op = "import_done" /\ Warnings(printed') > 0)
             => ReportsSkipped(printed')]_vars

\* an import that logged a failure has ended
C21_WitnessImport ==
    /\ lastOp.op = "import_done"
    /\ Warnings(printed) > 0

\* a scan that logged a failure has ended
C21_WitnessScan ==
    /\ lastOp.op = "scan_done"
    /\ Warnings(printed) > 0

\* the catalog track the loop of import_xml is at
ThisTrack == Catalog(xml).tracks[idx]

\* a step of the loop that wrote a track row
Wrote == pc = "import" /\ lastOp'.op \in {"import_update", "import_insert",
                                          "import_conflict"}

\* the lowercased file name of a catalog location
C22_Key(location) == Some(Lower(PathName(location[1])))

\* the tracks present when the import started that have this filename_lower
C22_Present(key) == {i \in Ids(import0) : import0[i].filename_lower = key}

\* every row but this one is what it was
OthersKept(id) == \A j \in Ids(tracks) : j # id => tracks'[j] = tracks[j]

C22_Step ==
    Wrote =>
        LET location == ThisTrack.Location
            present == C22_Present(C22_Key(location))
            id == lastOp'.id
        IN  IF present # {}
            THEN /\ lastOp'.op = "import_update"
                 /\ id \in present
                 /\ Len(tracks') = Len(tracks)
                 /\ tracks'[id].in_rekordbox = 1
                 /\ tracks'[id].rb_location = location
                 /\ tracks'[id].filepath = tracks[id].filepath
                 /\ OthersKept(id)
            ELSE IF ByFilepath(tracks, location) = {}
            THEN /\ lastOp'.op = "import_insert"
                 /\ Len(tracks') = Len(tracks) + 1
                 /\ id = Len(tracks')
                 /\ tracks'[id].filepath = location
                 /\ tracks'[id].in_rekordbox = 1
                 /\ OthersKept(id)
            ELSE /\ lastOp'.op = "import_conflict"
                 /\ Len(tracks') = Len(tracks)
                 /\ ByFilepath(tracks, location) = {id}
                 /\ tracks'[id].filepath = location
                 /\ tracks'[id].rb_location = location
                 /\ OthersKept(id)

\* C22: a catalog track whose lowercased file name is the filename_lower of a
\* track present when the import started updates such a track and inserts no
\* row; when there is none, a row is inserted with the catalog location as its
\* filepath, or the row that already has that filepath is updated.
C22_MatchByName == [][C22_Step]_vars

\* a catalog track has just been matched by its name to a scanned file
\* whose path is not the catalog location
C22_Witness ==
    /\ lastOp.op = "import_update"
    /\ tracks[lastOp.id].filepath # tracks[lastOp.id].rb_location
    /\ tracks[lastOp.id].filename # tracks[lastOp.id].filename_lower

\* a catalog track has just updated the row an earlier track of the same
\* import inserted for the same location
C22_WitnessConflict ==
    /\ lastOp.op = "import_conflict"
    /\ lastOp.id > Len(import0)

\* the catalog track the loop is at raises at one of its marks
RaisesAtMark == \E k \in 1..Len(ThisTrack.marks) : MarkRaises(ThisTrack.marks[k])

\* the cue points are the marks, one for one and in their order
C23_AreMarks(cues, marks) ==
    /\ Len(cues) = Len(marks)
    /\ \A k \in 1..Len(marks) :
          /\ cues[k].position_sec = marks[k].Start
          /\ cues[k].cue_num = marks[k].Num
          /\ cues[k].cue_name = NULL

C23_Step ==
    (Wrote /\ ~RaisesAtMark) =>
        LET id == lastOp'.id
        IN  /\ C23_AreMarks(CuesOf(cue_points', id), ThisTrack.marks)
            /\ \A j \in Ids(tracks') :
                  j # id => CuesOf(cue_points', j) = CuesOf(cue_points, j)
            /\ \A k \in 1..Len(cue_points') : cue_points'[k].track_id \in Ids(tracks')

\* C23: when import_xml processes a catalog track that resolves to the stored
\* track T, T's cue points are afterwards exactly the marks of that catalog
\* track (the prior ones are deleted, one is inserted per mark), and the cue
\* points of every other track are what they were.
C23_CuesRewritten == [][C23_Step]_vars

\* a track that had two cue points has just been given the one mark of the
\* catalog track that resolved to it
C23_Witness ==
    /\ lastOp.op = "import_update"
    /\ pc = "import"
    /\ idx > 2
    /\ Len(Catalog(xml).tracks[idx - 2].marks) = 2
    /\ Len(Catalog(xml).tracks[idx - 1].marks) = 1
    /\ Len(CuesOf(cue_points, lastOp.id)) = 1
    /\ \E j \in Ids(tracks) : j # lastOp.id /\ CuesOf(cue_points, j) # <<>>

\* the rows flagged in_rekordbox when the import started whose rb_track_id is
\* the TrackID of this catalog track
C24_Imported(track) ==
    IF track.TrackID = NULL THEN {}
    ELSE {i \in Ids(import0) :
             /\ import0[i].in_rekordbox = 1
             /\ import0[i].rb_track_id = Some(Str(NumVal(track.TrackID)))}

C24_Step ==
    (pc = "import" /\ idx' = idx + 1 /\ C24_Imported(ThisTrack) # {}) =>
        /\ tracks' = tracks
        /\ cue_points' = cue_points
        /\ playlists' = playlists
        /\ already_done_count' = already_done_count + 1
        /\ imported_count' = imported_count
        /\ skipped_count' = skipped_count

\* C24: import_xml skips a catalog track whose TrackID is the rb_track_id of a
\* track that was flagged in_rekordbox = 1 when the import started: no track
\* row and no cue point is written for it, whatever the catalog holds for it.
C24_SkipAlreadyImported == [][C24_Step]_vars

\* a catalog track has just been skipped although the row that carried its
\* id holds cue points that are not its marks
C24_Witness ==
    /\ lastOp.op = "import_already_done"
    /\ pc = "import"
    /\ idx > 1
    /\ LET track == Catalog(xml).tracks[idx - 1]
       IN  \E i \in C24_Imported(track) :
              Len(CuesOf(cue_points, i)) # Len(track.marks)

\* ------------------------------------------------------------------------
\* Properties of the rows the searches show, under SpecSearch

\* the cue points a track owns, and those of them whose class is a hot cue
C25_Owned(id) == {n \in 1..Len(cue_points) : cue_points[n].track_id = id}

C25_Hot(id) ==
    {n \in C25_Owned(id) : StartsWith(cue_points[n].cue_type, hot_cue_)}

\* C25: every row of the general search carries, as its total, the number of
\* cue points its track owns and, as its hot count, the number of those whose
\* class is a hot cue (so never more than the total); no track has two rows;
\* and, when the cap cuts nothing, every matching track has a row, the ones
\* without cue points with both counts 0
C25_CueCounts ==
    Searched =>
        /\ \A k \in 1..Len(rows) :
              /\ rows[k].id \in Ids(tracks)
              /\ rows[k].num_cues = Cardinality(C25_Owned(rows[k].id))
              /\ rows[k].num_hot_cues = Cardinality(C25_Hot(rows[k].id))
              /\ rows[k].num_hot_cues <= rows[k].num_cues
        /\ \A k, l \in 1..Len(rows) : k # l => rows[k].id # rows[l].id
        /\ NoTruncation(args) =>
              \A id \in Matching(args, tracks) :
                  \E k \in 1..Len(rows) :
                      /\ rows[k].id = id
                      /\ C25_Owned(id) = {} =>
                            rows[k].num_cues = 0 /\ rows[k].num_hot_cues = 0

\* a general search that shows a track without cue points next to a track
\* with a hot cue and a memory cue
C25_Witness ==
    /\ Searched
    /\ \E k, l \in 1..Len(rows) :
          /\ C25_Owned(rows[k].id) = {} /\ rows[k].num_cues = 0
          /\ rows[l].num_hot_cues = 1 /\ rows[l].num_cues = 2

\* ------------------------------------------------------------------------
\* Properties of the commits, under SpecAbort

\* the track rows an abort takes away: written or changed since the last
\* commit
C26_Lost ==
    {id \in Ids(tracks) : id > Len(tracks') \/ tracks'[id] # tracks[id]}

\* C26: an abort in the middle of a scan or of an import leaves the store as
\* of the last commit, and the rows it loses are fewer than the commit period:
\* the writes of every CommitEvery processed records have been committed
C26_AbortLosesLittle ==
    [][(pc \in {"scan", "import"} /\ lastOp'.op = "abort") =>
          /\ tracks' = committed.tracks
          /\ Cardinality(C26_Lost) < CommitEvery]_vars

\* an abort of a scan that had written CommitEvery rows
C26_WitnessScan ==
    /\ lastOp.op = "abort"
    /\ count >= CommitEvery
    /\ Len(tracks) = 0

\* ------------------------------------------------------------------------
\* Properties of the cue classes and of the counters, under Spec

\* the classes of a cue point: the memory cue and the hot cues A to H
C27_Classes == {memory_cue} \cup {hot_cue_ \o <<Letters[k]>> : k \in 1..8}

\* the slot number kept with a cue point (-1 when the mark has none)
C27_Slot(cue) == IF IsNull(cue.cue_num) THEN -1 ELSE NumVal(cue.cue_num)

\* a stored cue point of slot -1 (or none) is a memory cue and one of slot
\* 0 .. 7 is the hot cue of letter A .. H
C27_SlotsInRange ==
    \A n \in 1..Len(cue_points) :
        LET slot == C27_Slot(cue_points[n])
        IN  /\ slot = -1 => cue_points[n].cue_type = memory_cue
            /\ slot \in 0..7 =>
                  cue_points[n].cue_type = hot_cue_ \o <<Letters[slot + 1]>>

\* C27: in every reachable store the class of every cue point is the memory
\* cue or a hot cue of letter A to H, whatever slot numbers the catalog holds
C27_CueClasses ==
    /\ C27_SlotsInRange
    /\ \A n \in 1..Len(cue_points) : cue_points[n].cue_type \in C27_Classes

\* a store with a memory cue, a hot cue of a slot in 0 .. 7 and a cue point of
\* a slot beyond 7
C27_Witness ==
    /\ \E n \in 1..Len(cue_points) : C27_Slot(cue_points[n]) = -1
    /\ \E n \in 1..Len(cue_points) : C27_Slot(cue_points[n]) \in 0..7
    /\ \E n \in 1..Len(cue_points) : C27_Slot(cue_points[n]) > 7

\* the three counters of the summary, added up
C29_Counted(imported, already_done, skipped) == imported + already_done + skipped

\* C29: every catalog track the import loop processes adds one to exactly one
\* of the counters imported, already done and skipped, so that their sum
\* never exceeds the number of catalog tracks processed
C29_CountedOnce ==
    [][(pc = "import" /\ idx' = idx + 1) =>
          /\ C29_Counted(imported_count', already_done_count', skipped_count') =
                C29_Counted(imported_count, already_done_count, skipped_count) + 1
          /\ C29_Counted(imported_count', already_done_count', skipped_count') <=
                Len(Catalog(xml).tracks)]_vars

\* an import that has counted a track as imported, another as already done
\* and another as skipped
C29_Witness ==
    /\ pc = "import"
    /\ imported_count > 0
    /\ already_done_count > 0
    /\ skipped_count > 0

\* ------------------------------------------------------------------------
\* Properties of the rows of the playlist search, under SpecSearch

\* C30: the cue counts a playlist search shows for a member track are the
\* counts the general search reports for that track, whatever the playlist
\* holds, a track at several positions included
C30_SameCounts ==
    PlaylistSearched =>
        \A s \in 1..Len(rows) :
            \A k \in 1..Len(rows[s].rows) :
                LET r == rows[s].rows[k]
                IN  /\ r.num_cues = Row(tracks, cue_points, r.id).num_cues
                    /\ r.num_hot_cues = Row(tracks, cue_points, r.id).num_hot_cues

\* the counts agree for the tracks that are in the playlist once
C30_SameCountsOnce ==
    PlaylistSearched =>
        \A s \in 1..Len(rows) :
            \A k \in 1..Len(rows[s].rows) :
                LET r == rows[s].rows[k]
                    memberships ==
                        {n \in 1..Len(playlists) :
                            /\ playlists[n].playlist_path = rows[s].playlist_path
                            /\ playlists[n].track_id = r.id}
                IN  Cardinality(memberships) = 1 =>
                        /\ r.num_cues = Row(tracks, cue_points, r.id).num_cues
                        /\ r.num_hot_cues = Row(tracks, cue_points, r.id).num_hot_cues

\* a playlist search that shows a track with cue points that is in the
\* playlist at two positions
C30_Witness ==
    /\ PlaylistSearched
    /\ \E s \in 1..Len(rows) :
          \E k \in 1..Len(rows[s].rows) :
              /\ CuesOf(cue_points, rows[s].rows[k].id) # <<>>
              /\ Cardinality({n \in 1..Len(playlists) :
                    /\ playlists[n].playlist_path = rows[s].playlist_path
                    /\ playlists[n].track_id = rows[s].rows[k].id}) = 2

\* ------------------------------------------------------------------------
\* Properties of the printed rows, under SpecSearch

\* the tempo, key, source label and badges of a row of the general search,
\* as the output is to show them
C28_Rendering(r) ==
    <<"meta",
      IF IsNull(r.bpm) \/ NumVal(r.bpm) = 0 THEN Question ELSE Str(NumVal(r.bpm)),
      IF NonEmpty(r.musical_key) THEN r.musical_key[1] ELSE Question,
      IF IsNull(r.source_label) THEN <<"N", "o", "n", "e">> ELSE r.source_label[1],
      IF r.in_rekordbox = 0 THEN <<>>
      ELSE BadgeRB \o (IF r.num_cues = 0 THEN BadgeNoCues
                       ELSE BadgeCues(Str(r.num_hot_cues), Str(r.num_cues)))>>

\* the lines of the output that show the tempo, the key, the source label and
\* the badges
C28_MetaLines(out) == SelectSeq(out, LAMBDA line : line[1] = "meta")

\* C28: for the rows of a general search, print_results shows of every row
\* its own tempo, key and source label, the badge [RB] exactly when the row
\* is in rekordbox, and then [NO CUES] for a cue count of 0 and otherwise the
\* row's hot-cue and total counts
C28_RowsRendered ==
    Searched =>
        /\ Len(C28_MetaLines(printed)) = Len(rows)
        /\ \A k \in 1..Len(rows) :
              k <= Len(C28_MetaLines(printed)) =>
                  C28_MetaLines(printed)[k] = C28_Rendering(rows[k])

\* print_results ends with a ValueError on every row that has a file path
C28_RaisesOnFilepath ==
    Searched =>
        (Raised(printed) <=> \E k \in 1..Len(rows) : NonEmpty(rows[k].filepath))

\* a general search that has a row to print, of a track in rekordbox with
\* cue points
C28_Witness ==
    /\ Searched
    /\ \E k \in 1..Len(rows) : rows[k].in_rekordbox = 1 /\ rows[k].num_cues > 0

=========================================================================
